---------------------------- MODULE Spec2Model ----------------------------
(***************************************************************************)
(* Model of bluesky_queueserver/manager/comms.py: JSON RPC over a          *)
(* multiprocessing pipe.                                                   *)
(*                                                                         *)
(*   PipeJsonRpcSendAsync  the asyncio client: send_msg tasks on the event *)
(*                         loop, one receiver thread (_pipe_receive) that  *)
(*                         hands decoded packets to the loop.              *)
(*   PipeJsonRpcReceive    the server: a polling thread that dispatches    *)
(*                         each request with the json-rpc response manager *)
(*                         and writes the response to the pipe.            *)
(*                                                                         *)
(* The two objects are the two ends of one pipe.  conn_c2s holds what the  *)
(* client wrote and the server has not read yet, conn_s2c the other        *)
(* direction.  The event loop runs one callback or task step at a time:    *)
(* loop_running names the send_msg call whose step is in progress, and     *)
(* every other loop step waits for it; the threads run at any time.        *)
(***************************************************************************)
EXTENDS Integers, Sequences, FiniteSets, TLC

(***************************************************************************)
(* Bounds of the model.                                                    *)
(***************************************************************************)
MaxCalls == 2          \* send_msg calls issued during one run
MaxParam == 1          \* params values are 1..MaxParam (and None)
MaxStray == 1          \* packets the peer writes that answer no request
MaxThreads == 2        \* thread objects one instance creates during one run
CallTimeout == 1       \* the explicit per-call timeout, in clock ticks
MaxRequests == 3       \* packets a peer writes to the server during one run
MaxArrivals == 4       \* send_msg calls that reach the gate when tasks call again
MaxZmqCalls == 2       \* send_message calls issued on the ZMQ client during one run

None == 0              \* Python's None (ids start at 1, params at 1, timeouts at 1)

Calls == 1..MaxCalls
Threads == 1..MaxThreads
Params == 0..MaxParam
Methods == {"echo", "fail", "missing_method"}
TimeoutChoices == {None, CallTimeout}

\* The arguments of the send_msg calls.  A notification never reads its
\* timeout, and only the handler "echo" reads its params: those are left at
\* None where they are not read.
CallInputs ==
    { in \in [method : Methods, params : Params, notification : BOOLEAN,
              timeout : TimeoutChoices] :
        /\ in.notification => in.timeout = None
        /\ in.method # "echo" => in.params = None }

\* self._timeout_comm: the constructor's default timeout, longer than the
\* explicit one
timeout_comm == CallTimeout + 1

(***************************************************************************)
(* json-rpc error codes and messages (the json-rpc package's exceptions).  *)
(***************************************************************************)
ParseErrorCode == -32700
InvalidRequestCode == -32600
MethodNotFoundCode == -32601
ServerErrorCode == -32000

(***************************************************************************)
(* JSON text.  A dictionary is written as the sequence of its              *)
(* <<key, value>> pairs, in the order the keys were inserted; the empty    *)
(* text is not valid JSON.                                                 *)
(***************************************************************************)
KeyOrder == <<"method", "jsonrpc", "params", "id", "result", "error">>

json_dumps(msg) ==
    LET ks == SelectSeq(KeyOrder, LAMBDA k : k \in DOMAIN msg)
    IN  [i \in 1..Len(ks) |-> <<ks[i], msg[ks[i]]>>]

json_valid(text) == Len(text) > 0

json_loads(text) ==
    [k \in {text[i][1] : i \in DOMAIN text} |->
        text[CHOOSE i \in DOMAIN text : text[i][1] = k][2]]

(***************************************************************************)
(* Python values and their JSON text, for the params of a message.  A      *)
(* value is a tagged record; the items of a list and of a dictionary are    *)
(* [key, val] records in insertion order (the key of a list item is "").   *)
(* A params number p > 0 of a call stands for the value ParamTable[p].      *)
(***************************************************************************)
PyNull == [t |-> "null", n |-> 0, s |-> "", items |-> <<>>]
PyBool(b) == [t |-> IF b THEN "true" ELSE "false", n |-> 0, s |-> "", items |-> <<>>]
PyNum(n) == [t |-> "num", n |-> n, s |-> "", items |-> <<>>]
PyStr(s) == [t |-> "str", n |-> 0, s |-> s, items |-> <<>>]
\* str(uuid.uuid4()): a string told from the others by its number
PyUuid(uuid) == [t |-> "str", n |-> uuid, s |-> "uuid4", items |-> <<>>]
PyList(vals) ==
    [t |-> "list", n |-> 0, s |-> "",
     items |-> [i \in 1..Len(vals) |-> [key |-> "", val |-> vals[i]]]]
PyDict(pairs) ==
    [t |-> "dict", n |-> 0, s |-> "",
     items |-> [i \in 1..Len(pairs) |-> [key |-> pairs[i][1], val |-> pairs[i][2]]]]

PyHas(d, key) == \E i \in DOMAIN d.items : d.items[i].key = key
PyGet(d, key) == d.items[CHOOSE i \in DOMAIN d.items : d.items[i].key = key].val

ParamTable ==
    << PyList(<<>>),
       PyDict(<<>>),
       PyList(<<PyNum(1), PyStr("a")>>),
       PyDict(<< <<"x", PyNum(1)>> >>),
       PyDict(<< <<"x", PyList(<<PyNum(1), PyDict(<< <<"y", PyNull>> >>)>>)>>,
                 <<"z", PyStr("a")>> >>),
       PyList(<<PyList(<<>>), PyDict(<<>>), PyList(<<PyBool(TRUE)>>)>>),
       PyList(<<PyNull, PyBool(FALSE)>>),
       PyDict(<< <<"a", PyDict(<< <<"b", PyDict(<<>>)>> >>)>> >>) >>

\* The JSON text of a value: a sequence of tokens.
Tok(k) == [k |-> k, n |-> 0, s |-> ""]

RECURSIVE dumps_value(_)
RECURSIVE dumps_items(_, _)
dumps_items(items, isdict) ==
    IF items = <<>>
    THEN <<>>
    ELSE (IF isdict THEN <<[k |-> "str", n |-> 0, s |-> Head(items).key], Tok(":")>>
                    ELSE <<>>)
         \o dumps_value(Head(items).val)
         \o (IF Len(items) > 1 THEN <<Tok(",")>> ELSE <<>>)
         \o dumps_items(Tail(items), isdict)

dumps_value(v) ==
    CASE v.t \in {"null", "true", "false"} -> <<Tok(v.t)>>
      [] v.t \in {"num", "str"} -> <<[k |-> v.t, n |-> v.n, s |-> v.s]>>
      [] v.t = "list" -> <<Tok("[")>> \o dumps_items(v.items, FALSE) \o <<Tok("]")>>
      [] v.t = "dict" -> <<Tok("{")>> \o dumps_items(v.items, TRUE) \o <<Tok("}")>>

\* The value a JSON text stands for, and the tokens left after it.
RECURSIVE loads_value(_)
RECURSIVE loads_items(_, _, _)
loads_items(toks, kind, acc) ==
    IF Head(toks).k = (IF kind = "list" THEN "]" ELSE "}")
    THEN [val |-> [t |-> kind, n |-> 0, s |-> "", items |-> acc], rest |-> Tail(toks)]
    ELSE IF Head(toks).k = ","
    THEN loads_items(Tail(toks), kind, acc)
    ELSE IF kind = "dict"
    THEN LET r == loads_value(Tail(Tail(toks)))
         IN  loads_items(r.rest, kind, Append(acc, [key |-> Head(toks).s, val |-> r.val]))
    ELSE LET r == loads_value(toks)
         IN  loads_items(r.rest, kind, Append(acc, [key |-> "", val |-> r.val]))

loads_value(toks) ==
    LET h == Head(toks)
    IN  CASE h.k = "null" -> [val |-> PyNull, rest |-> Tail(toks)]
          [] h.k = "true" -> [val |-> PyBool(TRUE), rest |-> Tail(toks)]
          [] h.k = "false" -> [val |-> PyBool(FALSE), rest |-> Tail(toks)]
          [] h.k = "num" -> [val |-> PyNum(h.n), rest |-> Tail(toks)]
          [] h.k = "str" -> [val |-> [t |-> "str", n |-> h.n, s |-> h.s, items |-> <<>>],
                             rest |-> Tail(toks)]
          [] h.k = "[" -> loads_items(Tail(toks), "list", <<>>)
          [] h.k = "{" -> loads_items(Tail(toks), "dict", <<>>)

\* The message dictionary as a Python value: the keys in insertion order,
\* the params number replaced by the value it stands for.
PyMessage(msg) ==
    LET pairs == json_dumps(msg)
        field(k, v) == IF k = "params" THEN ParamTable[v]
                       ELSE IF k = "id" THEN PyUuid(v)
                       ELSE PyStr(v)
    IN  [t |-> "dict", n |-> 0, s |-> "",
         items |-> [i \in 1..Len(pairs) |->
                       [key |-> pairs[i][1], val |-> field(pairs[i][1], pairs[i][2])]]]

\* json.dumps(msg) and json.loads(msg_json) of a whole message
json_text(msg) == dumps_value(PyMessage(msg))
json_parse(text) == loads_value(text)

(***************************************************************************)
(* format_jsonrpc_msg: the request dictionary.  uuid stands for            *)
(* str(uuid.uuid4()).                                                      *)
(***************************************************************************)
\* (mutant: a notification gets an id too)
format_jsonrpc_msg_WithId(method, params, notification, uuid) ==
    IF params # None
    THEN [method |-> method, jsonrpc |-> "2.0", params |-> params, id |-> uuid]
    ELSE [method |-> method, jsonrpc |-> "2.0", id |-> uuid]

\* (mutant: the params are left out)
format_jsonrpc_msg_NoParams(method, params, notification, uuid) ==
    IF ~notification
    THEN [method |-> method, jsonrpc |-> "2.0", id |-> uuid]
    ELSE [method |-> method, jsonrpc |-> "2.0"]

\* (mutant: "if params:", an empty list or dictionary is left out)
format_jsonrpc_msg_Truthy(method, params, notification, uuid) ==
    LET given == params # None /\ ParamTable[params].items # <<>>
    IN  IF given
        THEN IF ~notification
             THEN [method |-> method, jsonrpc |-> "2.0", params |-> params, id |-> uuid]
             ELSE [method |-> method, jsonrpc |-> "2.0", params |-> params]
        ELSE IF ~notification
             THEN [method |-> method, jsonrpc |-> "2.0", id |-> uuid]
             ELSE [method |-> method, jsonrpc |-> "2.0"]

format_jsonrpc_msg(method, params, notification, uuid) ==
    IF params # None
    THEN IF ~notification
         THEN [method |-> method, jsonrpc |-> "2.0", params |-> params, id |-> uuid]
         ELSE [method |-> method, jsonrpc |-> "2.0", params |-> params]
    ELSE IF ~notification
         THEN [method |-> method, jsonrpc |-> "2.0", id |-> uuid]
         ELSE [method |-> method, jsonrpc |-> "2.0"]


(***************************************************************************)
(* The server's dispatcher (add_method) and the handlers registered on it: *)
(* "echo" returns its params, "fail" raises; "missing_method" is not       *)
(* registered.                                                             *)
(***************************************************************************)
dispatcher == {"echo", "fail"}

handler_raises(method) == method = "fail"

handler_result(method, params) == params

ExcType == "RuntimeError"
ExcText == "handler failed"

\* The response object of the json-rpc package: the request's id and either
\* a result or an error.
make_response_result(id, result) ==
    [jsonrpc |-> "2.0", id |-> id, result |-> result]

make_response_error(id, error) ==
    [jsonrpc |-> "2.0", id |-> id, error |-> error]

JSONRPCParseError == [code |-> ParseErrorCode, message |-> "Parse error"]
JSONRPCInvalidRequest == [code |-> InvalidRequestCode, message |-> "Invalid Request"]
JSONRPCMethodNotFound == [code |-> MethodNotFoundCode, message |-> "Method not found"]

JSONRPCServerError(type, text) ==
    [code |-> ServerErrorCode, message |-> "Server error",
     data |-> [type |-> type, message |-> text]]

\* The response to one well-formed request (whether or not it is then sent).
request_output(request) ==
    LET id == IF "id" \in DOMAIN request THEN request.id ELSE None
        params == IF "params" \in DOMAIN request THEN request.params ELSE None
    IN  IF request.method \notin dispatcher
        THEN make_response_error(id, JSONRPCMethodNotFound)
        ELSE IF handler_raises(request.method)
             THEN make_response_error(id, JSONRPCServerError(ExcType, ExcText))
             ELSE make_response_result(id, handler_result(request.method, params))

\* (mutant: a notification is answered like a request)
JSONRPCResponseManager_handle_AnswersAll(text) ==
    IF ~json_valid(text)
    THEN <<make_response_error(None, JSONRPCParseError)>>
    ELSE LET request == json_loads(text)
         IN  IF ~({"method", "jsonrpc"} \subseteq DOMAIN request)
             THEN <<make_response_error(None, JSONRPCInvalidRequest)>>
             ELSE <<request_output(request)>>

\* JSONRPCResponseManager.handle(msg, dispatcher): the responses to send, none
\* for a notification.  A text that is not JSON, or not a request, is answered
\* with an error whose id is null.
JSONRPCResponseManager_handle(text) ==
    IF ~json_valid(text)
    THEN <<make_response_error(None, JSONRPCParseError)>>
    ELSE LET request == json_loads(text)
         IN  IF ~({"method", "jsonrpc"} \subseteq DOMAIN request)
             THEN <<make_response_error(None, JSONRPCInvalidRequest)>>
             ELSE IF "id" \notin DOMAIN request
                  THEN <<>>
                  ELSE <<request_output(request)>>

(***************************************************************************)
(* Packets the peer end of the pipe may write that answer no request of    *)
(* this client: a response without an id and a response whose id is null.  *)
(* An id the client generated (a uuid4) is never guessed.                  *)
(***************************************************************************)
StrayMessages ==
    { [jsonrpc |-> "2.0", result |-> MaxParam + 1],
      make_response_error(None, JSONRPCParseError) }

(***************************************************************************)
(* A packet conn.recv() cannot read: recv raises (the pickled object is    *)
(* damaged).  The packet is consumed.                                      *)
(***************************************************************************)
UnreadablePacket == <<<<"unreadable", None>>>>

recv_raises(packet) == packet = UnreadablePacket

(***************************************************************************)
(* Packets a peer may write to the server: requests and notifications for  *)
(* each method (id is the id of the request), a text that is not JSON, a   *)
(* JSON text that is not a request, and a packet recv cannot read.         *)
(***************************************************************************)
PeerTexts(id) ==
    {json_dumps(format_jsonrpc_msg(m, IF m = "echo" THEN MaxParam ELSE None, n, id)) :
        m \in Methods, n \in BOOLEAN}
      \cup {<<>>, json_dumps([jsonrpc |-> "2.0", id |-> id]), UnreadablePacket}

(***************************************************************************)
(* State.                                                                  *)
(***************************************************************************)
VARIABLES
    conn_c2s,            \* pipe, client -> server: texts written, not yet read
    conn_s2c,            \* pipe, server -> client
    \* PipeJsonRpcReceive
    rcv_thread_running,  \* self._thread_running
    rcv_thread,          \* the threads it created: [pc, msg]
    late_reads,          \* requests its threads read since stop() cleared the flag
    \* PipeJsonRpcSendAsync
    snd_thread_running,  \* self._thread_running
    snd_thread,          \* the receiver threads it created: their pc
    snd_crash_mark,      \* the uuids generated when an exception ended a receiver
                         \* thread (NoCrash: none since a thread was last started)
    expected_msg_id,     \* self._expected_msg_id
    fut_comm,            \* self._fut_comm: [state, result]
    lock_comm,           \* self._lock_comm: [locked, waiters]
    \* the event loop
    loop_ready,          \* callbacks and tasks the receiver side scheduled
    loop_running,        \* the call whose step is running now (None: no step)
    call,                \* the send_msg calls: [pc, method, params, ...]
    uuid_count,          \* uuids generated so far
    stray_count,         \* stray packets written so far
    \* ZMQCommSendAsync: the instance of the application ("client") and the
    \* transient instance of zmq_single_request ("single")
    zmq_socket,          \* self._zmq_socket: [id, state]
    zmq_ctx,             \* self._ctx: the ids of its open sockets
    raise_timeout_exceptions,  \* self._raise_timeout_exceptions
    lock_zmq,            \* self._lock_zmq: [locked, waiters]
    zmq_call,            \* the send_message calls: [pc, inst, method, params, outcome]
    \* the ZMQ server and the connection to it
    zmq_server_up,       \* the server is reachable
    zmq_request,         \* the request of a socket the server has not answered
    zmq_reply,           \* the reply the server sent to a socket, not yet read
    \* zmq_single_request
    single,              \* [pc, method, params, address, msg, msg_err]
    \* one message on its way from format_jsonrpc_msg through json.dumps to
    \* json.loads
    codec                \* [pc, method, params, notification, uuid, text, decoded]

pipe_vars == <<conn_c2s, conn_s2c, rcv_thread_running, rcv_thread,
               snd_thread_running, snd_thread, expected_msg_id, fut_comm,
               lock_comm, loop_ready, loop_running, call, uuid_count, stray_count,
               late_reads, snd_crash_mark>>

zmq_vars == <<zmq_socket, zmq_ctx, raise_timeout_exceptions, lock_zmq, zmq_call,
              zmq_server_up, zmq_request, zmq_reply, single>>

vars == <<conn_c2s, conn_s2c, rcv_thread_running, rcv_thread,
          snd_thread_running, snd_thread, expected_msg_id, fut_comm,
          lock_comm, loop_ready, loop_running, call, uuid_count, stray_count,
          zmq_socket, zmq_ctx, raise_timeout_exceptions, lock_zmq, zmq_call,
          zmq_server_up, zmq_request, zmq_reply, single, codec, late_reads,
          snd_crash_mark>>

rcv_vars == <<rcv_thread_running, rcv_thread, late_reads>>
snd_thread_vars == <<snd_thread_running, snd_thread, snd_crash_mark>>
snd_call_vars == <<expected_msg_id, fut_comm, lock_comm, loop_running, call, uuid_count>>

NoMsg == [jsonrpc |-> "none"]
NoCrash == -1
NoFuture == [state |-> "none", result |-> NoMsg]
\* How a call ended: what it returned or raised, and the response it read.
NoOutcome == [kind |-> "none", value |-> None, error_code |-> 0,
              error_type |-> "", message |-> "", response |-> NoMsg]
\* A call: its arguments, the id of its request, the ticks left on its timer,
\* whether it had to wait at the gate, what _response_received logged about
\* messages it ignored while the call awaited its response, and how the call
\* ended.  The timeout, the ticks and the wait are kept while the call runs.
\* arrived numbers the calls in the order in which they reached the gate.
NewCall == [pc |-> "idle", method |-> "", params |-> None, notification |-> FALSE,
            timeout |-> None, id |-> None, remaining |-> 0, waited |-> FALSE,
            ignored |-> {}, outcome |-> NoOutcome, arrived |-> 0]

\* The two ZMQCommSendAsync instances, and their send_message calls: the calls
\* of the application on "client", and the one call of zmq_single_request.
Inst == {"client", "single"}
ZmqCalls == 1..MaxZmqCalls
SingleCall == 0
AllZmqCalls == {SingleCall} \cup ZmqCalls

\* No socket yet (the instance is not constructed).
NoSocket == [id |-> 0, state |-> "none"]
\* How a send_message call ended: what it returned or raised (text is
\* str(exception)), and whether its except clause ran.
NoZmqOutcome == [kind |-> "none", value |-> NoMsg, text |-> "", failed |-> FALSE]
NewZmqCall == [pc |-> "idle", inst |-> "client", method |-> "", params |-> "None",
               outcome |-> NoZmqOutcome]
NewSingle == [pc |-> "idle", method |-> "", params |-> "None", address |-> "",
              msg |-> NoMsg, msg_err |-> ""]

NewCodec ==
    [pc |-> "idle", method |-> "", params |-> None, notification |-> FALSE,
     uuid |-> None, text |-> <<>>, decoded |-> PyNull]

Init ==
    /\ conn_c2s = <<>>
    /\ conn_s2c = <<>>
    /\ rcv_thread_running = FALSE
    /\ rcv_thread = [t \in Threads |-> [pc |-> "unborn", msg |-> <<>>]]
    /\ snd_thread_running = FALSE
    /\ snd_thread = [t \in Threads |-> "unborn"]
    /\ expected_msg_id = None
    /\ fut_comm = NoFuture
    /\ lock_comm = [locked |-> FALSE, waiters |-> <<>>]
    /\ loop_ready = <<>>
    /\ loop_running = None
    /\ call = [c \in Calls |-> NewCall]
    /\ uuid_count = 0
    /\ stray_count = 0
    /\ late_reads = 0
    /\ snd_crash_mark = NoCrash
    /\ zmq_socket = [i \in Inst |-> NoSocket]
    /\ zmq_ctx = [i \in Inst |-> {}]
    /\ raise_timeout_exceptions = [i \in Inst |-> FALSE]
    /\ lock_zmq = [i \in Inst |-> [locked |-> FALSE, waiters |-> <<>>]]
    /\ zmq_call = [c \in AllZmqCalls |-> NewZmqCall]
    /\ zmq_server_up = FALSE
    /\ zmq_request = [i \in Inst |-> NoMsg]
    /\ zmq_reply = [i \in Inst |-> NoMsg]
    /\ single = NewSingle
    /\ codec = NewCodec

(***************************************************************************)
(* PipeJsonRpcSendAsync.send_msg                                           *)
(***************************************************************************)

\* asyncio.Lock.acquire returns at once on a lock that is free and has no
\* waiter; release wakes the first waiter, and callers wait in arrival order.
\* (mutant: the gate admits every caller)
LockFree_Open == TRUE

\* (mutant: a free gate admits a caller that arrives while others wait for it)
LockFree_Barge == ~lock_comm.locked

LockFree == ~lock_comm.locked /\ lock_comm.waiters = <<>>

\* (mutant: the gate is not released on exit)
ReleasedLock_Held == lock_comm

ReleasedLock == [lock_comm EXCEPT !.locked = FALSE]

\* (mutant: the timeout of the call is not read)
EffectiveTimeout_DefaultOnly(timeout) == timeout_comm

\* The timeout the call waits with: the constructor's when none is given.
EffectiveTimeout(timeout) == IF timeout = None THEN timeout_comm ELSE timeout

\* (mutant: the id is not fresh: the last one is used again)
NextUuid_Reused == IF uuid_count = 0 THEN 1 ELSE uuid_count

\* The uuid of the next request.
NextUuid == uuid_count + 1

\* (mutant: send_msg gives way to the event loop after conn.send, before the
\* expected id is recorded)
WriteRequest_Yields(c, rec) ==
    LET msg == format_jsonrpc_msg(rec.method, rec.params, rec.notification, NextUuid)
    IN  /\ conn_c2s' = Append(conn_c2s, json_dumps(msg))
        /\ uuid_count' = IF "id" \in DOMAIN msg THEN NextUuid ELSE uuid_count
        /\ call' = [call EXCEPT ![c] =
                        [rec EXCEPT !.pc = "sent",
                                    !.id = IF "id" \in DOMAIN msg THEN msg.id ELSE None]]
        /\ loop_running' = None

\* Inside the gate, up to conn.send: the request is formatted, encoded and
\* written to the pipe.  The step of the event loop is still running.
WriteRequest(c, rec) ==
    LET msg == format_jsonrpc_msg(rec.method, rec.params, rec.notification, NextUuid)
    IN  /\ conn_c2s' = Append(conn_c2s, json_dumps(msg))
        /\ uuid_count' = IF "id" \in DOMAIN msg THEN NextUuid ELSE uuid_count
        /\ call' = [call EXCEPT ![c] =
                        [rec EXCEPT !.pc = "sent",
                                    !.id = IF "id" \in DOMAIN msg THEN msg.id ELSE None]]
        /\ loop_running' = c

\* The number of the call that reached the gate last.
LastArrival ==
    CHOOSE n \in {call[c].arrived : c \in Calls} : \A c \in Calls : call[c].arrived <= n

\* A task calls send_msg(method, params, notification=, timeout=).  With the
\* gate free it goes on to write the request; otherwise it waits at the gate.
SendMsgCall(c, method, params, notification, timeout) ==
    /\ loop_running = None
    /\ call[c].pc = "idle"
    /\ \A d \in Calls : d < c => call[d].pc # "idle"
    /\ LET rec == [call[c] EXCEPT !.method = method, !.params = params,
                                  !.notification = notification,
                                  !.timeout = timeout,
                                  !.arrived = LastArrival + 1]
       IN  IF LockFree
           THEN /\ lock_comm' = [lock_comm EXCEPT !.locked = TRUE]
                /\ WriteRequest(c, rec)
           ELSE /\ lock_comm' = [lock_comm EXCEPT !.waiters = Append(@, c)]
                /\ call' = [call EXCEPT ![c] = [rec EXCEPT !.pc = "lock_wait",
                                                           !.waited = TRUE]]
                /\ UNCHANGED <<conn_c2s, uuid_count, loop_running>>
    /\ UNCHANGED <<conn_s2c, rcv_vars, snd_thread_vars, expected_msg_id, fut_comm,
                   loop_ready, stray_count>>
    /\ UNCHANGED <<zmq_vars, codec>>

\* (mutant: the first waiter is admitted while the gate is still held)
SendMsgAdmitted_Early(c) ==
    /\ loop_running = None
    /\ call[c].pc = "lock_wait"
    /\ lock_comm.waiters # <<>>
    /\ Head(lock_comm.waiters) = c
    /\ lock_comm' = [locked |-> TRUE, waiters |-> Tail(lock_comm.waiters)]
    /\ WriteRequest(c, call[c])
    /\ UNCHANGED <<conn_s2c, rcv_vars, snd_thread_vars, expected_msg_id, fut_comm,
                   loop_ready, stray_count>>
    /\ UNCHANGED <<zmq_vars, codec>>

\* The first waiter of the released gate is admitted and writes its request.
SendMsgAdmitted(c) ==
    /\ loop_running = None
    /\ call[c].pc = "lock_wait"
    /\ ~lock_comm.locked
    /\ lock_comm.waiters # <<>>
    /\ Head(lock_comm.waiters) = c
    /\ lock_comm' = [locked |-> TRUE, waiters |-> Tail(lock_comm.waiters)]
    /\ WriteRequest(c, call[c])
    /\ UNCHANGED <<conn_s2c, rcv_vars, snd_thread_vars, expected_msg_id, fut_comm,
                   loop_ready, stray_count>>
    /\ UNCHANGED <<zmq_vars, codec>>

\* After conn.send.  A notification returns None: the finally clause clears
\* the future and the expected id and the gate is released.  Any other call
\* records the expected id, creates the future and awaits it with the timeout.
SendMsgAwait(c) ==
    /\ loop_running = c
    /\ call[c].pc = "sent"
    /\ IF call[c].notification
       THEN /\ call' = [call EXCEPT ![c].pc = "done",
                                    ![c].timeout = None,
                                    ![c].waited = FALSE,
                                    ![c].outcome = [NoOutcome EXCEPT !.kind = "None"]]
            /\ fut_comm' = NoFuture
            /\ expected_msg_id' = None
            /\ lock_comm' = ReleasedLock
       ELSE /\ expected_msg_id' = call[c].id
            /\ fut_comm' = [state |-> "pending", result |-> NoMsg]
            /\ call' = [call EXCEPT ![c].pc = "await",
                                    ![c].remaining = EffectiveTimeout(call[c].timeout)]
            /\ UNCHANGED lock_comm
    /\ loop_running' = None
    /\ UNCHANGED <<conn_c2s, conn_s2c, rcv_vars, snd_thread_vars, loop_ready,
                   uuid_count, stray_count>>
    /\ UNCHANGED <<zmq_vars, codec>>

\* One tick of the clock while a call awaits its future.  At remaining = 0
\* the timer of asyncio.wait_for has fired.
Tick ==
    /\ \E c \in Calls :
          /\ call[c].pc = "await"
          /\ call[c].remaining > 0
          /\ call' = [call EXCEPT ![c].remaining = @ - 1]
    /\ UNCHANGED <<conn_c2s, conn_s2c, rcv_vars, snd_thread_vars, expected_msg_id,
                   fut_comm, lock_comm, loop_ready, loop_running, uuid_count,
                   stray_count>>
    /\ UNCHANGED <<zmq_vars, codec>>

\* (mutant: the error type is read from data only, and is empty without it)
response_outcome_NoGeneric(response) ==
    IF "result" \in DOMAIN response
    THEN [NoOutcome EXCEPT !.kind = "result", !.value = response.result,
                           !.response = response]
    ELSE IF "error" \in DOMAIN response
         THEN [NoOutcome EXCEPT
                   !.kind = "CommJsonRpcError",
                   !.response = response,
                   !.error_code = response.error.code,
                   !.error_type = IF "data" \in DOMAIN response.error
                                  THEN response.error.data.type ELSE "",
                   !.message = response.error.message]
         ELSE [NoOutcome EXCEPT !.kind = "RuntimeError", !.response = response]

\* (mutant: "error" is looked for before "result")
response_outcome_ErrorFirst(response) ==
    IF "error" \in DOMAIN response
    THEN IF "data" \in DOMAIN response.error
         THEN [NoOutcome EXCEPT
                   !.kind = "CommJsonRpcError",
                   !.response = response,
                   !.error_code = response.error.code,
                   !.error_type = response.error.data.type,
                   !.message = response.error.message \o ": "
                                   \o response.error.data.message]
         ELSE [NoOutcome EXCEPT
                   !.kind = "CommJsonRpcError",
                   !.response = response,
                   !.error_code = response.error.code,
                   !.error_type = "CommJsonRpcError",
                   !.message = response.error.message]
    ELSE IF "result" \in DOMAIN response
         THEN [NoOutcome EXCEPT !.kind = "result", !.value = response.result,
                                !.response = response]
         ELSE [NoOutcome EXCEPT !.kind = "RuntimeError", !.response = response]

\* What send_msg makes of the response the future holds.
response_outcome(response) ==
    IF "result" \in DOMAIN response
    THEN [NoOutcome EXCEPT !.kind = "result", !.value = response.result,
                           !.response = response]
    ELSE IF "error" \in DOMAIN response
         THEN IF "data" \in DOMAIN response.error
              THEN [NoOutcome EXCEPT
                        !.kind = "CommJsonRpcError",
                        !.response = response,
                        !.error_code = response.error.code,
                        !.error_type = response.error.data.type,
                        !.message = response.error.message \o ": "
                                        \o response.error.data.message]
              ELSE [NoOutcome EXCEPT
                        !.kind = "CommJsonRpcError",
                        !.response = response,
                        !.error_code = response.error.code,
                        !.error_type = "CommJsonRpcError",
                        !.message = response.error.message]
         ELSE [NoOutcome EXCEPT !.kind = "RuntimeError", !.response = response]

TimeoutOutcome == [NoOutcome EXCEPT !.kind = "CommTimeoutError"]

\* How the awaiting call ends: wait_for returns the future's result when the
\* future is done as the task resumes, and raises TimeoutError (cancelling the
\* future) when the timer fired and it is not.
await_outcome(fut, remaining) ==
    IF fut.state = "done" THEN response_outcome(fut.result) ELSE TimeoutOutcome

\* (mutant: the finally clause leaves the expected id in place)
SendMsgResume_KeepsId(c) ==
    /\ loop_running = None
    /\ call[c].pc = "await"
    /\ fut_comm.state = "done" \/ call[c].remaining = 0
    /\ call' = [call EXCEPT ![c].pc = "done",
                            ![c].timeout = None,
                            ![c].remaining = 0,
                            ![c].waited = FALSE,
                            ![c].outcome = await_outcome(fut_comm, call[c].remaining)]
    /\ fut_comm' = NoFuture
    /\ expected_msg_id' = expected_msg_id
    /\ lock_comm' = ReleasedLock
    /\ UNCHANGED <<conn_c2s, conn_s2c, rcv_vars, snd_thread_vars, loop_ready,
                   loop_running, uuid_count, stray_count>>
    /\ UNCHANGED <<zmq_vars, codec>>

\* The awaiting task resumes, because the future was completed or the timer
\* fired, and send_msg leaves: result or exception, then the finally clause,
\* then the release of the gate.
SendMsgResume(c) ==
    /\ loop_running = None
    /\ call[c].pc = "await"
    /\ fut_comm.state = "done" \/ call[c].remaining = 0
    /\ call' = [call EXCEPT ![c].pc = "done",
                            ![c].timeout = None,
                            ![c].remaining = 0,
                            ![c].waited = FALSE,
                            ![c].outcome = await_outcome(fut_comm, call[c].remaining)]
    /\ fut_comm' = NoFuture
    /\ expected_msg_id' = None
    /\ lock_comm' = ReleasedLock
    /\ UNCHANGED <<conn_c2s, conn_s2c, rcv_vars, snd_thread_vars, loop_ready,
                   loop_running, uuid_count, stray_count>>
    /\ UNCHANGED <<zmq_vars, codec>>

\* The task that made a call that has ended is about to call send_msg again
\* (the number of its last arrival is kept until then).
SendMsgAgain(c) ==
    /\ loop_running = None
    /\ call[c].pc = "done"
    /\ LastArrival < MaxArrivals
    /\ call' = [call EXCEPT ![c] = [NewCall EXCEPT !.arrived = call[c].arrived]]
    /\ UNCHANGED <<conn_c2s, conn_s2c, rcv_vars, snd_thread_vars, expected_msg_id,
                   fut_comm, lock_comm, loop_ready, loop_running, uuid_count,
                   stray_count>>
    /\ UNCHANGED <<zmq_vars, codec>>

(***************************************************************************)
(* PipeJsonRpcSendAsync: the receiver thread and the correlation of        *)
(* responses on the event loop.                                            *)
(***************************************************************************)

\* The thread object a start() creates: the first one not created yet.
NewThread(pcs) == CHOOSE t \in Threads : pcs[t] = "unborn" /\ \A u \in Threads : u < t => pcs[u] # "unborn"

\* start(): nothing when the flag is set; else the flag is set and a thread
\* is created and started.
SndStart ==
    /\ snd_thread_running \/ \E t \in Threads : snd_thread[t] = "unborn"
    /\ IF ~snd_thread_running
       THEN /\ snd_thread_running' = TRUE
            /\ snd_crash_mark' = NoCrash
            /\ snd_thread' = [snd_thread EXCEPT ![NewThread(snd_thread)] = "poll"]
       ELSE UNCHANGED snd_thread_vars
    /\ UNCHANGED <<conn_c2s, conn_s2c, rcv_vars, snd_call_vars, loop_ready, stray_count>>
    /\ UNCHANGED <<zmq_vars, codec>>

\* stop(): the flag is cleared.
SndStop ==
    /\ snd_thread_running' = FALSE
    /\ UNCHANGED <<conn_c2s, conn_s2c, rcv_vars, snd_thread, snd_call_vars,
                   loop_ready, stray_count>>
    /\ UNCHANGED snd_crash_mark
    /\ UNCHANGED <<zmq_vars, codec>>

\* _pipe_receive, a poll that finds a packet: the packet is read, decoded and
\* handed to the event loop (call_soon_threadsafe(self._conn_received, msg));
\* an exception ends the thread.
SndPoll(t) ==
    /\ snd_thread[t] = "poll"
    /\ conn_s2c # <<>>
    /\ conn_s2c' = Tail(conn_s2c)
    /\ IF ~recv_raises(Head(conn_s2c)) /\ json_valid(Head(conn_s2c))
       THEN /\ UNCHANGED snd_crash_mark
            /\ loop_ready' = Append(loop_ready,
                                [kind |-> "conn_received",
                                 msg |-> json_loads(Head(conn_s2c))])
            /\ snd_thread' = [snd_thread EXCEPT ![t] = "check"]
       ELSE /\ snd_thread' = [snd_thread EXCEPT ![t] = "dead"]
            /\ UNCHANGED loop_ready
            /\ snd_crash_mark' = IF snd_crash_mark = NoCrash THEN uuid_count
                                 ELSE snd_crash_mark
    /\ UNCHANGED <<conn_c2s, rcv_vars, snd_thread_running, snd_call_vars, stray_count>>
    /\ UNCHANGED <<zmq_vars, codec>>

\* _pipe_receive, a poll that times out with the flag clear: the thread exits.
\* (With the flag set the iteration changes nothing.)
SndPollTimeout(t) ==
    /\ snd_thread[t] = "poll"
    /\ conn_s2c = <<>>
    /\ ~snd_thread_running
    /\ snd_thread' = [snd_thread EXCEPT ![t] = "dead"]
    /\ UNCHANGED <<conn_c2s, conn_s2c, rcv_vars, snd_thread_running, snd_call_vars,
                   loop_ready, stray_count>>
    /\ UNCHANGED snd_crash_mark
    /\ UNCHANGED <<zmq_vars, codec>>

\* _pipe_receive, the end of the loop body after a packet: the thread exits
\* when the flag is clear.
SndCheck(t) ==
    /\ snd_thread[t] = "check"
    /\ snd_thread' = [snd_thread EXCEPT ![t] = IF snd_thread_running THEN "poll" ELSE "dead"]
    /\ UNCHANGED <<conn_c2s, conn_s2c, rcv_vars, snd_thread_running, snd_call_vars,
                   loop_ready, stray_count>>
    /\ UNCHANGED snd_crash_mark
    /\ UNCHANGED <<zmq_vars, codec>>

\* _conn_received, run by the event loop: the task of _response_received is
\* created, and runs after what is ready now.
LoopConnReceived ==
    /\ loop_running = None
    /\ loop_ready # <<>>
    /\ Head(loop_ready).kind = "conn_received"
    /\ loop_ready' = Append(Tail(loop_ready),
                            [kind |-> "response_received", msg |-> Head(loop_ready).msg])
    /\ UNCHANGED <<conn_c2s, conn_s2c, rcv_vars, snd_thread_vars, snd_call_vars,
                   stray_count>>
    /\ UNCHANGED <<zmq_vars, codec>>

\* (mutant: the id of the message is not compared)
ResponseAccepted_AnyId(response) ==
    /\ expected_msg_id # None
    /\ "id" \in DOMAIN response

\* _response_received accepts the message: a request is expected, the message
\* has an id, and the id is the expected one.
ResponseAccepted(response) ==
    /\ expected_msg_id # None
    /\ "id" \in DOMAIN response
    /\ response.id = expected_msg_id

\* What _response_received logs about a message it ignores.
response_log(response) ==
    IF expected_msg_id = None THEN {"unsolicited"}
    ELSE IF "id" \notin DOMAIN response THEN {"missing_id"}
    ELSE IF response.id # expected_msg_id THEN {"incorrect_id"}
    ELSE {}

\* self._fut_comm.set_result(response): a future that is not pending raises
\* InvalidStateError in the task and keeps its state.
set_result(fut, response) ==
    IF fut.state = "pending" THEN [state |-> "done", result |-> response] ELSE fut

\* The task of _response_received runs: the future of the awaiting call is
\* completed, or the message is logged and ignored.
LoopResponseReceived ==
    /\ loop_running = None
    /\ loop_ready # <<>>
    /\ Head(loop_ready).kind = "response_received"
    /\ loop_ready' = Tail(loop_ready)
    /\ fut_comm' = IF ResponseAccepted(Head(loop_ready).msg)
                   THEN set_result(fut_comm, Head(loop_ready).msg)
                   ELSE fut_comm
    /\ call' = [c \in Calls |->
                    IF call[c].pc = "await"
                    THEN [call[c] EXCEPT !.ignored = @ \cup response_log(Head(loop_ready).msg)]
                    ELSE call[c]]
    /\ UNCHANGED <<conn_c2s, conn_s2c, rcv_vars, snd_thread_vars, expected_msg_id,
                   lock_comm, loop_running, uuid_count, stray_count>>
    /\ UNCHANGED <<zmq_vars, codec>>

(***************************************************************************)
(* PipeJsonRpcReceive                                                      *)
(***************************************************************************)

\* start(): nothing when the flag is set; else the flag is set and a thread
\* is created and started.
RcvStart ==
    /\ rcv_thread_running \/ \E t \in Threads : rcv_thread[t].pc = "unborn"
    /\ IF ~rcv_thread_running
       THEN /\ rcv_thread_running' = TRUE
            /\ late_reads' = 0
            /\ rcv_thread' = [rcv_thread EXCEPT
                                 ![NewThread([t \in Threads |-> rcv_thread[t].pc])].pc = "poll"]
       ELSE UNCHANGED rcv_vars
    /\ UNCHANGED <<conn_c2s, conn_s2c, snd_thread_vars, snd_call_vars, loop_ready,
                   stray_count>>
    /\ UNCHANGED <<zmq_vars, codec>>

\* (mutant: stop() also ends the threads, whatever they are doing)
RcvStop_Interrupt ==
    /\ rcv_thread_running' = FALSE
    /\ rcv_thread' = [t \in Threads |->
                        IF rcv_thread[t].pc = "unborn" THEN rcv_thread[t]
                        ELSE [pc |-> "dead", msg |-> <<>>]]
    /\ UNCHANGED <<conn_c2s, conn_s2c, snd_thread_vars, snd_call_vars,
                   loop_ready, stray_count>>
    /\ late_reads' = 0
    /\ UNCHANGED <<zmq_vars, codec>>

\* stop(): the flag is cleared (and the requests read after it are counted
\* from here).
RcvStop ==
    /\ rcv_thread_running' = FALSE
    /\ UNCHANGED <<conn_c2s, conn_s2c, rcv_thread, snd_thread_vars, snd_call_vars,
                   loop_ready, stray_count>>
    /\ late_reads' = 0
    /\ UNCHANGED <<zmq_vars, codec>>

\* (mutant: the exception of recv is swallowed and the loop goes on)
RcvPoll_Survives(t) ==
    /\ rcv_thread[t].pc = "poll"
    /\ conn_c2s # <<>>
    /\ conn_c2s' = Tail(conn_c2s)
    /\ rcv_thread' = [rcv_thread EXCEPT
                         ![t] = IF recv_raises(Head(conn_c2s))
                                THEN [pc |-> "check", msg |-> <<>>]
                                ELSE [pc |-> "handle", msg |-> Head(conn_c2s)]]
    /\ UNCHANGED <<conn_s2c, rcv_thread_running, snd_thread_vars, snd_call_vars,
                   loop_ready, stray_count>>
    /\ late_reads' = IF ~rcv_thread_running /\ ~recv_raises(Head(conn_c2s))
                      THEN late_reads + 1 ELSE late_reads
    /\ UNCHANGED <<zmq_vars, codec>>

\* _receive_conn_thread, a poll that finds a packet: the packet is read, and
\* the thread goes on to handle it; an exception of recv ends the thread.
RcvPoll(t) ==
    /\ rcv_thread[t].pc = "poll"
    /\ conn_c2s # <<>>
    /\ conn_c2s' = Tail(conn_c2s)
    /\ rcv_thread' = [rcv_thread EXCEPT
                         ![t] = IF recv_raises(Head(conn_c2s))
                                THEN [pc |-> "dead", msg |-> <<>>]
                                ELSE [pc |-> "handle", msg |-> Head(conn_c2s)]]
    /\ UNCHANGED <<conn_s2c, rcv_thread_running, snd_thread_vars, snd_call_vars,
                   loop_ready, stray_count>>
    /\ late_reads' = IF ~rcv_thread_running /\ ~recv_raises(Head(conn_c2s))
                      THEN late_reads + 1 ELSE late_reads
    /\ UNCHANGED <<zmq_vars, codec>>

\* _receive_conn_thread, a poll that times out with the flag clear: the thread
\* exits.  (With the flag set the iteration changes nothing.)
RcvPollTimeout(t) ==
    /\ rcv_thread[t].pc = "poll"
    /\ conn_c2s = <<>>
    /\ ~rcv_thread_running
    /\ rcv_thread' = [rcv_thread EXCEPT ![t].pc = "dead"]
    /\ UNCHANGED <<conn_c2s, conn_s2c, rcv_thread_running, snd_thread_vars,
                   snd_call_vars, loop_ready, stray_count>>
    /\ UNCHANGED late_reads
    /\ UNCHANGED <<zmq_vars, codec>>

\* _conn_received: the response manager dispatches the request (the handler
\* runs in this thread) and the response, if there is one, is written to
\* the pipe.
conn_received_sends(msg) ==
    LET response == JSONRPCResponseManager_handle(msg)
    IN  [i \in 1..Len(response) |-> json_dumps(response[i])]

\* (mutant: the exception of a handler is not caught: nothing is sent and the
\* loop of the thread ends)
RcvHandle_Crash(t) ==
    /\ rcv_thread[t].pc = "handle"
    /\ LET crash == /\ json_valid(rcv_thread[t].msg)
                    /\ json_loads(rcv_thread[t].msg).method \in dispatcher
                    /\ handler_raises(json_loads(rcv_thread[t].msg).method)
       IN  /\ conn_s2c' = IF crash THEN conn_s2c
                          ELSE conn_s2c \o conn_received_sends(rcv_thread[t].msg)
           /\ rcv_thread' = [rcv_thread EXCEPT
                                ![t] = [pc |-> IF crash THEN "dead" ELSE "check",
                                        msg |-> <<>>]]
    /\ UNCHANGED <<conn_c2s, rcv_thread_running, snd_thread_vars, snd_call_vars,
                   loop_ready, stray_count>>
    /\ UNCHANGED late_reads
    /\ UNCHANGED <<zmq_vars, codec>>

RcvHandle(t) ==
    /\ rcv_thread[t].pc = "handle"
    /\ conn_s2c' = conn_s2c \o conn_received_sends(rcv_thread[t].msg)
    /\ rcv_thread' = [rcv_thread EXCEPT ![t] = [pc |-> "check", msg |-> <<>>]]
    /\ UNCHANGED <<conn_c2s, rcv_thread_running, snd_thread_vars, snd_call_vars,
                   loop_ready, stray_count>>
    /\ UNCHANGED late_reads
    /\ UNCHANGED <<zmq_vars, codec>>

\* _receive_conn_thread, the end of the loop body after a packet: the thread
\* exits when the flag is clear.
RcvCheck(t) ==
    /\ rcv_thread[t].pc = "check"
    /\ rcv_thread' = [rcv_thread EXCEPT
                         ![t].pc = IF rcv_thread_running THEN "poll" ELSE "dead"]
    /\ UNCHANGED <<conn_c2s, conn_s2c, rcv_thread_running, snd_thread_vars,
                   snd_call_vars, loop_ready, stray_count>>
    /\ UNCHANGED late_reads
    /\ UNCHANGED <<zmq_vars, codec>>

\* The peer writes a packet that answers no request.
PeerStray(m) ==
    /\ stray_count < MaxStray
    /\ stray_count' = stray_count + 1
    /\ conn_s2c' = Append(conn_s2c, json_dumps(m))
    /\ UNCHANGED <<conn_c2s, rcv_vars, snd_thread_vars, snd_call_vars, loop_ready>>
    /\ UNCHANGED <<zmq_vars, codec>>

\* A peer writes a packet to the server; the ids of its requests are
\* 1, 2, ...
PeerWrite(text) ==
    /\ stray_count < MaxRequests
    /\ stray_count' = stray_count + 1
    /\ conn_c2s' = Append(conn_c2s, text)
    /\ UNCHANGED <<conn_s2c, rcv_vars, snd_thread_vars, snd_call_vars, loop_ready>>
    /\ UNCHANGED <<zmq_vars, codec>>

\* A peer writes a text that is not JSON to the client.
PeerGarbage ==
    /\ stray_count < MaxStray
    /\ stray_count' = stray_count + 1
    /\ conn_s2c' = Append(conn_s2c, <<>>)
    /\ UNCHANGED <<conn_c2s, rcv_vars, snd_thread_vars, snd_call_vars, loop_ready>>
    /\ UNCHANGED <<zmq_vars, codec>>

\* A peer that answers the request the client waits for with a message that
\* has its id, but neither "result" nor "error".
PeerUnknownFormat ==
    /\ stray_count < MaxStray
    /\ expected_msg_id # None
    /\ stray_count' = stray_count + 1
    /\ conn_s2c' = Append(conn_s2c,
                          json_dumps([jsonrpc |-> "2.0", id |-> expected_msg_id]))
    /\ UNCHANGED <<conn_c2s, rcv_vars, snd_thread_vars, snd_call_vars, loop_ready>>
    /\ UNCHANGED <<zmq_vars, codec>>

\* The responses a peer may give to the request with this id: a result, a
\* result together with an error, an error without and with data, and a
\* message with neither.
AnswerMessages(id) ==
    { make_response_result(id, MaxParam),
      [jsonrpc |-> "2.0", id |-> id, result |-> MaxParam, error |-> JSONRPCMethodNotFound],
      make_response_error(id, JSONRPCMethodNotFound),
      make_response_error(id, JSONRPCServerError(ExcType, ExcText)),
      [jsonrpc |-> "2.0", id |-> id] }

\* A peer at the other end of the pipe reads the next request and answers it
\* (a notification is read and not answered).
PeerAnswer(shape) ==
    /\ conn_c2s # <<>>
    /\ conn_c2s' = Tail(conn_c2s)
    /\ LET request == json_loads(Head(conn_c2s))
       IN  IF "id" \in DOMAIN request
           THEN \E m \in AnswerMessages(request.id) :
                   /\ DOMAIN m = shape
                   /\ conn_s2c' = Append(conn_s2c, json_dumps(m))
           ELSE conn_s2c' = conn_s2c
    /\ UNCHANGED <<rcv_vars, snd_thread_vars, snd_call_vars, loop_ready, stray_count>>
    /\ UNCHANGED <<zmq_vars, codec>>

(***************************************************************************)
(* ZMQCommSendAsync                                                        *)
(***************************************************************************)

\* The arguments of send_message and of zmq_single_request; params are
\* written as Python writes them.
ZmqMethods == {"status"}
ZmqParams == {"None", "{}", "{'a': 1}"}
\* zmq_server_address: one the socket can connect to and one it cannot.
ZmqAddresses == {"tcp://localhost:5555", "invalid"}

\* params = params or {}
params_or_empty(params) == IF params \in {"None", "{}"} THEN "{}" ELSE params

\* _create_msg
create_msg(method, params) == [method |-> method, params |-> params]

\* The reply of the server to a request.
server_reply(request) ==
    [success |-> TRUE, msg |-> "", method |-> request.method, params |-> request.params]

\* str(ex) of the exceptions of the socket: a send or receive that timed out
\* (zmq.Again), a send on a socket that awaits a reply (EFSM), a connect
\* that failed; and of asyncio.CancelledError.
AgainText == "Resource temporarily unavailable"
EFSMText == "Operation cannot be accomplished in current state"
ConnectText == "Invalid argument"
CancelledText == ""

\* (mutant: the policy is ignored and the failure value is always returned)
comm_failure_NeverRaises(i, ex) ==
    [kind |-> "return",
     value |-> [success |-> FALSE, msg |-> "ZMQ communication error: " \o ex],
     text |-> "", failed |-> TRUE]

\* send_message, the end of the except clause: CommTimeoutError is raised or
\* the failure value is returned.
comm_failure(i, ex) ==
    IF raise_timeout_exceptions[i]
    THEN [kind |-> "CommTimeoutError", value |-> NoMsg,
          text |-> "ZMQ communication error: " \o ex, failed |-> TRUE]
    ELSE [kind |-> "return",
          value |-> [success |-> FALSE, msg |-> "ZMQ communication error: " \o ex],
          text |-> "", failed |-> TRUE]

\* _zmq_socket_open: a new socket, on which no exchange has started.
zmq_socket_open(sock) == [id |-> sock.id + 1, state |-> "idle"]

\* (mutant: the socket is kept after a failure)
zmq_socket_restart_Kept(sock) == sock

\* _zmq_socket_restart: the socket after it.
zmq_socket_restart(sock) == zmq_socket_open(sock)

\* __init__ of the application's instance, with its policy.
ZmqConstruct(policy) ==
    /\ zmq_socket["client"] = NoSocket
    /\ zmq_socket' = [zmq_socket EXCEPT !["client"] = zmq_socket_open(@)]
    /\ zmq_ctx' = [zmq_ctx EXCEPT !["client"] = {zmq_socket'["client"].id}]
    /\ raise_timeout_exceptions' = [raise_timeout_exceptions EXCEPT !["client"] = policy]
    /\ UNCHANGED <<lock_zmq, zmq_call, zmq_server_up, zmq_request, zmq_reply, single>>
    /\ UNCHANGED <<pipe_vars, codec>>

\* asyncio.Lock: free, and nobody waits for it.
ZmqLockFree(i) == ~lock_zmq[i].locked /\ lock_zmq[i].waiters = <<>>

\* A task calls send_message(method=, params=) on the application's instance.
ZmqSendMessage(c, method, params) ==
    /\ zmq_socket["client"] # NoSocket
    /\ zmq_call[c].pc = "idle"
    /\ \A d \in ZmqCalls : d < c => zmq_call[d].pc # "idle"
    /\ zmq_call' = [zmq_call EXCEPT
                       ![c] = [NewZmqCall EXCEPT
                                  !.pc = IF ZmqLockFree("client") THEN "locked" ELSE "lock_wait",
                                  !.method = method,
                                  !.params = params_or_empty(params)]]
    /\ lock_zmq' = [lock_zmq EXCEPT
                       !["client"] = IF ZmqLockFree("client")
                                     THEN [@ EXCEPT !.locked = TRUE]
                                     ELSE [@ EXCEPT !.waiters = Append(@, c)]]
    /\ UNCHANGED <<zmq_socket, zmq_ctx, raise_timeout_exceptions, zmq_server_up,
                   zmq_request, zmq_reply, single>>
    /\ UNCHANGED <<pipe_vars, codec>>

\* The first waiter is admitted when the gate is free.
ZmqAdmitted(c) ==
    /\ zmq_call[c].pc = "lock_wait"
    /\ ~lock_zmq[zmq_call[c].inst].locked
    /\ Head(lock_zmq[zmq_call[c].inst].waiters) = c
    /\ lock_zmq' = [lock_zmq EXCEPT ![zmq_call[c].inst] =
                        [locked |-> TRUE, waiters |-> Tail(@.waiters)]]
    /\ zmq_call' = [zmq_call EXCEPT ![c].pc = "locked"]
    /\ UNCHANGED <<zmq_socket, zmq_ctx, raise_timeout_exceptions, zmq_server_up,
                   zmq_request, zmq_reply, single>>
    /\ UNCHANGED <<pipe_vars, codec>>

\* send_message, the except clause: the socket is restarted (what the server
\* sends to the closed socket is lost), the call ends as the policy says, and
\* the gate is released.
ZmqFail(c, ex) ==
    LET i == zmq_call[c].inst
    IN  /\ zmq_socket' = [zmq_socket EXCEPT ![i] = zmq_socket_restart(@)]
        /\ zmq_ctx' = [zmq_ctx EXCEPT ![i] = (@ \ {zmq_socket[i].id}) \cup {zmq_socket'[i].id}]
        /\ zmq_request' = [zmq_request EXCEPT ![i] = NoMsg]
        /\ zmq_reply' = [zmq_reply EXCEPT ![i] = NoMsg]
        /\ zmq_call' = [zmq_call EXCEPT ![c].pc = "done",
                                        ![c].outcome = comm_failure(i, ex)]
        /\ lock_zmq' = [lock_zmq EXCEPT ![i].locked = FALSE]

\* _zmq_send: the request is sent, and the socket then awaits the reply; on a
\* socket that awaits a reply the send raises; with the server unreachable
\* the send may time out.
ZmqSend(c, timed_out) ==
    /\ zmq_call[c].pc = "locked"
    /\ timed_out => ~zmq_server_up
    /\ IF zmq_socket[zmq_call[c].inst].state # "idle"
       THEN ~timed_out /\ ZmqFail(c, EFSMText)
       ELSE IF timed_out
            THEN ZmqFail(c, AgainText)
            ELSE /\ zmq_socket' = [zmq_socket EXCEPT ![zmq_call[c].inst].state = "awaiting"]
                 /\ zmq_request' = [zmq_request EXCEPT ![zmq_call[c].inst] =
                                        create_msg(zmq_call[c].method, zmq_call[c].params)]
                 /\ zmq_call' = [zmq_call EXCEPT ![c].pc = "recv"]
                 /\ UNCHANGED <<zmq_ctx, zmq_reply, lock_zmq>>
    /\ UNCHANGED <<raise_timeout_exceptions, zmq_server_up, single>>
    /\ UNCHANGED <<pipe_vars, codec>>

\* _zmq_receive: the reply is there; send_message returns it.
ZmqRecv(c) ==
    /\ zmq_call[c].pc = "recv"
    /\ zmq_reply[zmq_call[c].inst] # NoMsg
    /\ zmq_call' = [zmq_call EXCEPT
                       ![c].pc = "done",
                       ![c].outcome = [NoZmqOutcome EXCEPT
                                          !.kind = "return",
                                          !.value = zmq_reply[zmq_call[c].inst]]]
    /\ zmq_socket' = [zmq_socket EXCEPT ![zmq_call[c].inst].state = "idle"]
    /\ zmq_reply' = [zmq_reply EXCEPT ![zmq_call[c].inst] = NoMsg]
    /\ lock_zmq' = [lock_zmq EXCEPT ![zmq_call[c].inst].locked = FALSE]
    /\ UNCHANGED <<zmq_ctx, raise_timeout_exceptions, zmq_server_up, zmq_request, single>>
    /\ UNCHANGED <<pipe_vars, codec>>

\* _zmq_receive: no reply within timeout_recv.
ZmqRecvTimeout(c) ==
    /\ zmq_call[c].pc = "recv"
    /\ zmq_reply[zmq_call[c].inst] = NoMsg
    /\ ZmqFail(c, AgainText)
    /\ UNCHANGED <<raise_timeout_exceptions, zmq_server_up, single>>
    /\ UNCHANGED <<pipe_vars, codec>>

\* The task of a call of the application is cancelled while it is suspended:
\* at the gate, in the send or in the receive.  asyncio.CancelledError is an
\* Exception up to Python 3.7 (caught: the except clause runs) and a
\* BaseException from Python 3.8 (it leaves send_message, which releases the
\* gate and nothing else).
ZmqCancel(c, caught) ==
    /\ c \in ZmqCalls
    /\ zmq_call[c].pc \in {"lock_wait", "locked", "recv"}
    /\ IF zmq_call[c].pc = "lock_wait"
       THEN /\ ~caught
            /\ lock_zmq' = [lock_zmq EXCEPT ![zmq_call[c].inst].waiters =
                                SelectSeq(@, LAMBDA d : d # c)]
            /\ zmq_call' = [zmq_call EXCEPT
                               ![c].pc = "done",
                               ![c].outcome = [NoZmqOutcome EXCEPT !.kind = "CancelledError"]]
            /\ UNCHANGED <<zmq_socket, zmq_ctx, zmq_request, zmq_reply>>
       ELSE IF caught
            THEN ZmqFail(c, CancelledText)
            ELSE /\ lock_zmq' = [lock_zmq EXCEPT ![zmq_call[c].inst].locked = FALSE]
                 /\ zmq_call' = [zmq_call EXCEPT
                                    ![c].pc = "done",
                                    ![c].outcome = [NoZmqOutcome EXCEPT !.kind = "CancelledError"]]
                 /\ UNCHANGED <<zmq_socket, zmq_ctx, zmq_request, zmq_reply>>
    /\ UNCHANGED <<raise_timeout_exceptions, zmq_server_up, single>>
    /\ UNCHANGED <<pipe_vars, codec>>

\* The server becomes reachable, or unreachable.
ZmqServerUp ==
    /\ ~zmq_server_up
    /\ zmq_server_up' = TRUE
    /\ UNCHANGED <<zmq_socket, zmq_ctx, raise_timeout_exceptions, lock_zmq, zmq_call,
                   zmq_request, zmq_reply, single>>
    /\ UNCHANGED <<pipe_vars, codec>>

ZmqServerDown ==
    /\ zmq_server_up
    /\ zmq_server_up' = FALSE
    /\ UNCHANGED <<zmq_socket, zmq_ctx, raise_timeout_exceptions, lock_zmq, zmq_call,
                   zmq_request, zmq_reply, single>>
    /\ UNCHANGED <<pipe_vars, codec>>

\* The server answers the request of a socket.
ZmqServe(i) ==
    /\ zmq_server_up
    /\ zmq_request[i] # NoMsg
    /\ zmq_reply' = [zmq_reply EXCEPT ![i] = server_reply(zmq_request[i])]
    /\ zmq_request' = [zmq_request EXCEPT ![i] = NoMsg]
    /\ UNCHANGED <<zmq_socket, zmq_ctx, raise_timeout_exceptions, lock_zmq, zmq_call,
                   zmq_server_up, single>>
    /\ UNCHANGED <<pipe_vars, codec>>

(***************************************************************************)
(* zmq_single_request                                                      *)
(***************************************************************************)

\* zmq_single_request(method, params, zmq_server_address=): asyncio.run
\* starts send_request.
SingleRequest(method, params, address) ==
    /\ single.pc = "idle"
    /\ single' = [NewSingle EXCEPT !.pc = "construct", !.method = method,
                                   !.params = params, !.address = address]
    /\ UNCHANGED <<zmq_socket, zmq_ctx, raise_timeout_exceptions, lock_zmq, zmq_call,
                   zmq_server_up, zmq_request, zmq_reply>>
    /\ UNCHANGED <<pipe_vars, codec>>

\* (mutant: the exception of the constructor is not caught)
SingleConstruct_Uncaught ==
    /\ single.pc = "construct"
    /\ IF single.address = "invalid"
       THEN /\ single' = [single EXCEPT !.pc = "raised"]
            /\ UNCHANGED <<zmq_socket, zmq_ctx>>
       ELSE /\ zmq_socket' = [zmq_socket EXCEPT !["single"] = zmq_socket_open(@)]
            /\ zmq_ctx' = [zmq_ctx EXCEPT !["single"] = {zmq_socket'["single"].id}]
            /\ single' = [single EXCEPT !.pc = "send"]
    /\ UNCHANGED <<raise_timeout_exceptions, lock_zmq, zmq_call, zmq_server_up,
                   zmq_request, zmq_reply>>
    /\ UNCHANGED <<pipe_vars, codec>>

\* send_request: ZMQCommSendAsync(zmq_server_address=...), with the default
\* policy.  An exception of the constructor (the socket cannot connect) ends
\* asyncio.run and is caught by zmq_single_request.
SingleConstruct ==
    /\ single.pc = "construct"
    /\ IF single.address = "invalid"
       THEN /\ single' = [single EXCEPT !.pc = "done", !.msg = NoMsg,
                                        !.msg_err = ConnectText]
            /\ UNCHANGED <<zmq_socket, zmq_ctx>>
       ELSE /\ zmq_socket' = [zmq_socket EXCEPT !["single"] = zmq_socket_open(@)]
            /\ zmq_ctx' = [zmq_ctx EXCEPT !["single"] = {zmq_socket'["single"].id}]
            /\ single' = [single EXCEPT !.pc = "send"]
    /\ UNCHANGED <<raise_timeout_exceptions, lock_zmq, zmq_call, zmq_server_up,
                   zmq_request, zmq_reply>>
    /\ UNCHANGED <<pipe_vars, codec>>

\* send_request: await zmq_to_manager.send_message(method=, params=); the gate
\* of the new instance is free.
SingleSendMessage ==
    /\ single.pc = "send"
    /\ single' = [single EXCEPT !.pc = "wait"]
    /\ zmq_call' = [zmq_call EXCEPT
                       ![SingleCall] = [NewZmqCall EXCEPT
                                           !.pc = "locked", !.inst = "single",
                                           !.method = single.method,
                                           !.params = params_or_empty(single.params)]]
    /\ lock_zmq' = [lock_zmq EXCEPT !["single"].locked = TRUE]
    /\ UNCHANGED <<zmq_socket, zmq_ctx, raise_timeout_exceptions, zmq_server_up,
                   zmq_request, zmq_reply>>
    /\ UNCHANGED <<pipe_vars, codec>>

\* zmq_single_request, after asyncio.run: what send_message returned is msg and
\* msg_err is empty; an exception gives None and its text.
single_result(outcome) ==
    IF outcome.kind = "return"
    THEN [msg |-> outcome.value, msg_err |-> ""]
    ELSE [msg |-> NoMsg, msg_err |-> outcome.text]

\* send_message has ended: the instance is deleted, which closes its socket,
\* and zmq_single_request returns (msg, msg_err).
SingleReturn ==
    /\ single.pc = "wait"
    /\ zmq_call[SingleCall].pc = "done"
    /\ single' = [single EXCEPT
                     !.pc = "done",
                     !.msg = single_result(zmq_call[SingleCall].outcome).msg,
                     !.msg_err = single_result(zmq_call[SingleCall].outcome).msg_err]
    /\ zmq_socket' = [zmq_socket EXCEPT !["single"].state = "closed"]
    /\ zmq_ctx' = [zmq_ctx EXCEPT !["single"] = {}]
    /\ UNCHANGED <<raise_timeout_exceptions, lock_zmq, zmq_call, zmq_server_up,
                   zmq_request, zmq_reply>>
    /\ UNCHANGED <<pipe_vars, codec>>

(***************************************************************************)
(* Specification                                                           *)
(***************************************************************************)
\* The calls, the two started objects and their threads.
Next ==
    \/ \E c \in Calls, in \in CallInputs :
            SendMsgCall(c, in.method, in.params, in.notification, in.timeout)
    \/ \E c \in Calls : SendMsgAdmitted(c)
    \/ \E c \in Calls : SendMsgAwait(c)
    \/ \E c \in Calls : SendMsgResume(c)
    \/ Tick
    \/ SndStart
    \/ \E t \in Threads : SndPoll(t)
    \/ \E t \in Threads : SndCheck(t)
    \/ LoopConnReceived
    \/ LoopResponseReceived
    \/ RcvStart
    \/ \E t \in Threads : RcvPoll(t)
    \/ \E t \in Threads : RcvHandle(t)
    \/ \E t \in Threads : RcvCheck(t)

Spec == Init /\ [][Next]_vars

\* The same with time that passes and an event loop that runs the send_msg
\* steps that are ready: a task admitted at the gate, a task after its
\* conn.send, a task whose future is done or whose timer fired.
FairSpec ==
    /\ Spec
    /\ WF_vars(Tick)
    /\ WF_vars(\E c \in Calls : SendMsgAdmitted(c))
    /\ WF_vars(\E c \in Calls : SendMsgAwait(c))
    /\ WF_vars(\E c \in Calls : SendMsgResume(c))

\* The same with a peer that may answer in an unknown format.
NextPeer ==
    \/ Next
    \/ PeerUnknownFormat

FairSpecPeer ==
    /\ Init /\ [][NextPeer]_vars
    /\ WF_vars(Tick)
    /\ WF_vars(\E c \in Calls : SendMsgAdmitted(c))
    /\ WF_vars(\E c \in Calls : SendMsgAwait(c))
    /\ WF_vars(\E c \in Calls : SendMsgResume(c))

\* The client with a peer that answers each request with a response of any
\* shape.
AnswerShapes ==
    { {"jsonrpc", "id", "result"}, {"jsonrpc", "id", "result", "error"},
      {"jsonrpc", "id", "error"}, {"jsonrpc", "id"} }

NextAnswers ==
    \/ \E c \in Calls, in \in CallInputs :
            SendMsgCall(c, in.method, in.params, in.notification, in.timeout)
    \/ \E c \in Calls : SendMsgAdmitted(c)
    \/ \E c \in Calls : SendMsgAwait(c)
    \/ \E c \in Calls : SendMsgResume(c)
    \/ Tick
    \/ SndStart
    \/ \E t \in Threads : SndPoll(t)
    \/ \E t \in Threads : SndCheck(t)
    \/ LoopConnReceived
    \/ LoopResponseReceived
    \/ \E shape \in AnswerShapes : PeerAnswer(shape)

SpecAnswers == Init /\ [][NextAnswers]_vars

\* The gate of send_msg alone: tasks that call send_msg again and again, with
\* nobody at the other end of the pipe (a call that is not a notification
\* ends with its timeout).
GateInputs == {in \in CallInputs : in.method = "echo" /\ in.params = None}

NextGate ==
    \/ \E c \in Calls, in \in GateInputs :
            SendMsgCall(c, in.method, in.params, in.notification, in.timeout)
    \/ \E c \in Calls : SendMsgAdmitted(c)
    \/ \E c \in Calls : SendMsgAwait(c)
    \/ \E c \in Calls : SendMsgResume(c)
    \/ \E c \in Calls : SendMsgAgain(c)
    \/ Tick

SpecGate == Init /\ [][NextGate]_vars

\* The client with start() and stop() called at any time, and a peer that
\* answers each request with a result and may write a text that is not JSON.
NextReader ==
    \/ \E c \in Calls, in \in GateInputs :
            SendMsgCall(c, in.method, in.params, in.notification, in.timeout)
    \/ \E c \in Calls : SendMsgAdmitted(c)
    \/ \E c \in Calls : SendMsgAwait(c)
    \/ \E c \in Calls : SendMsgResume(c)
    \/ Tick
    \/ SndStart
    \/ SndStop
    \/ \E t \in Threads : SndPoll(t)
    \/ \E t \in Threads : SndPollTimeout(t)
    \/ \E t \in Threads : SndCheck(t)
    \/ LoopConnReceived
    \/ LoopResponseReceived
    \/ PeerAnswer({"jsonrpc", "id", "result"})
    \/ PeerGarbage

SpecReader == Init /\ [][NextReader]_vars

\* The same with a peer that also writes stray packets.
NextStray ==
    \/ Next
    \/ \E m \in StrayMessages : PeerStray(m)

SpecStray == Init /\ [][NextStray]_vars

\* The server alone, with its start() and stop() called at any time and a
\* peer that writes packets to it.
NextServer ==
    \/ RcvStart
    \/ RcvStop
    \/ \E t \in Threads : RcvPoll(t)
    \/ \E t \in Threads : RcvPollTimeout(t)
    \/ \E t \in Threads : RcvHandle(t)
    \/ \E t \in Threads : RcvCheck(t)
    \/ \E text \in PeerTexts(stray_count + 1) : PeerWrite(text)

SpecServer == Init /\ [][NextServer]_vars

\* The two instances with start() and stop() called at any time, no send_msg
\* call, and a peer that writes a request or a packet recv cannot read to the
\* server, and a text that is not JSON to the client.
LifecycleTexts(id) ==
    {json_dumps(format_jsonrpc_msg("echo", None, FALSE, id)), UnreadablePacket}

NextLifecycle ==
    \/ RcvStart
    \/ RcvStop
    \/ \E t \in Threads : RcvPoll(t)
    \/ \E t \in Threads : RcvPollTimeout(t)
    \/ \E t \in Threads : RcvHandle(t)
    \/ \E t \in Threads : RcvCheck(t)
    \/ \E text \in LifecycleTexts(stray_count + 1) : PeerWrite(text)
    \/ SndStart
    \/ SndStop
    \/ \E t \in Threads : SndPoll(t)
    \/ \E t \in Threads : SndPollTimeout(t)
    \/ \E t \in Threads : SndCheck(t)
    \/ LoopConnReceived
    \/ LoopResponseReceived
    \/ PeerGarbage

SpecLifecycle == Init /\ [][NextLifecycle]_vars

\* The same with threads that the operating system keeps running.
FairSpecServer ==
    /\ SpecServer
    /\ \A t \in Threads :
          WF_vars(RcvPoll(t) \/ RcvPollTimeout(t) \/ RcvHandle(t) \/ RcvCheck(t))

\* The ZMQ client of the application with concurrent send_message calls,
\* one zmq_single_request, and a server that comes and goes.
NextZmq ==
    \/ \E policy \in BOOLEAN : ZmqConstruct(policy)
    \/ \E c \in ZmqCalls, method \in ZmqMethods, params \in ZmqParams :
            ZmqSendMessage(c, method, params)
    \/ \E c \in ZmqCalls : ZmqAdmitted(c)
    \/ \E c \in AllZmqCalls, timed_out \in BOOLEAN : ZmqSend(c, timed_out)
    \/ \E c \in AllZmqCalls : ZmqRecv(c)
    \/ \E c \in AllZmqCalls : ZmqRecvTimeout(c)
    \/ \E c \in ZmqCalls, caught \in BOOLEAN : ZmqCancel(c, caught)
    \/ ZmqServerUp
    \/ ZmqServerDown
    \/ \E i \in Inst : ZmqServe(i)
    \/ \E method \in ZmqMethods, params \in ZmqParams, address \in ZmqAddresses :
            SingleRequest(method, params, address)
    \/ SingleConstruct
    \/ SingleSendMessage
    \/ SingleReturn

SpecZmq == Init /\ [][NextZmq]_vars

(***************************************************************************)
(* One message from format_jsonrpc_msg through json.dumps (send_msg) to    *)
(* json.loads (the reader of the pipe).                                    *)
(***************************************************************************)
CodecParams == 0..Len(ParamTable)

\* send_msg: msg = format_jsonrpc_msg(...); msg_json = json.dumps(msg)
CodecEncode(method, params, notification, uuid) ==
    /\ codec.pc = "idle"
    /\ codec' = [NewCodec EXCEPT !.pc = "encoded", !.method = method,
                                 !.params = params, !.notification = notification,
                                 !.uuid = uuid,
                                 !.text = json_text(format_jsonrpc_msg(method, params,
                                                                       notification, uuid))]
    /\ UNCHANGED <<pipe_vars, zmq_vars>>

\* msg = json.loads(msg_json)
CodecDecode ==
    /\ codec.pc = "encoded"
    /\ codec' = [codec EXCEPT !.pc = "decoded", !.decoded = json_parse(codec.text)]
    /\ UNCHANGED <<pipe_vars, zmq_vars>>

\* the next message
CodecNext ==
    /\ codec.pc = "decoded"
    /\ codec' = NewCodec
    /\ UNCHANGED <<pipe_vars, zmq_vars>>

NextCodec ==
    \/ \E method \in Methods, params \in CodecParams, notification \in BOOLEAN,
          uuid \in Calls :
          CodecEncode(method, params, notification, uuid)
    \/ CodecDecode
    \/ CodecNext

SpecCodec == Init /\ [][NextCodec]_vars

(***************************************************************************)
(* Properties                                                              *)
(***************************************************************************)

\* A request that expects a response is outstanding: written to the pipe by
\* a call that has not left send_msg.
Outstanding(c) == call[c].pc \in {"sent", "await"} /\ ~call[c].notification

\* The call read a response (it returned a result or raised one of the two
\* errors send_msg makes of a response).
ReadResponse(c) == call[c].outcome.kind \in {"result", "CommJsonRpcError", "RuntimeError"}

\* The call ended the way a call that expects a response can end.
Finished(c) == call[c].pc = "done" /\ (ReadResponse(c) \/ call[c].outcome.kind = "CommTimeoutError")

\* The requests the server holds or can read, decoded.
RequestsAtServer ==
    {json_loads(conn_c2s[i]) : i \in DOMAIN conn_c2s}
        \cup {json_loads(rcv_thread[t].msg) : t \in {u \in Threads : rcv_thread[u].pc = "handle"}}

\* C1: at most one request that expects a response is outstanding at any
\* time: at most one call is between writing its request and leaving
\* send_msg, however many calls were issued concurrently.
C1_SingleOutstanding == Cardinality({c \in Calls : Outstanding(c)}) <= 1

\* C1 witness: one request is outstanding while another call, issued
\* concurrently, waits at the gate.
C1_Witness ==
    \E a, b \in Calls :
        /\ Outstanding(a) /\ call[a].pc = "await"
        /\ call[b].pc = "lock_wait" /\ ~call[b].notification

\* C2: once the request of a call that expects a response is written, every
\* such call whose request was written earlier has finished (it read its
\* response or timed out); so a request the server holds or can read is never
\* that of a call admitted later than an unfinished one.
C2_NextAfterPrevious ==
    /\ \A a, b \in Calls :
          (call[a].id # None /\ call[b].id # None /\ call[a].id < call[b].id)
              => Finished(a)
    /\ \A r \in RequestsAtServer : \A a \in Calls :
          ("id" \in DOMAIN r /\ call[a].id # None /\ call[a].id < r.id) => Finished(a)

\* C2 witness: the server holds the request of a call that had to wait at
\* the gate, and the call admitted before it has read its response.
C2_Witness ==
    \E a, b \in Calls, t \in Threads :
        /\ call[b].waited /\ call[b].pc = "await"
        /\ rcv_thread[t].pc = "handle"
        /\ "id" \in DOMAIN json_loads(rcv_thread[t].msg)
        /\ json_loads(rcv_thread[t].msg).id = call[b].id
        /\ call[a].id # None /\ call[a].id < call[b].id
        /\ call[a].outcome.kind = "result"

\* The task of _response_received ran on the message at the head of the
\* ready queue.
ResponseTaskRan ==
    /\ loop_ready # <<>>
    /\ Head(loop_ready).kind = "response_received"
    /\ loop_ready' = Tail(loop_ready)

\* The message at the head of the ready queue answers the expected request.
HeadMatches ==
    /\ expected_msg_id # None
    /\ "id" \in DOMAIN Head(loop_ready).msg
    /\ Head(loop_ready).msg.id = expected_msg_id

\* C3: the future is completed only by _response_received, on a message
\* whose id is the expected one while a request is expected, and with that
\* message; a message that arrives when nothing is expected, has no id or
\* has another id changes nothing of the client but the ready queue and the
\* log: the pending call stays pending, the gate and the receiver thread are
\* as before.
C3_OnlyMatchingCompletes ==
    [][ /\ (fut_comm.state # "done" /\ fut_comm'.state = "done")
            => /\ ResponseTaskRan
               /\ HeadMatches
               /\ fut_comm'.result = Head(loop_ready).msg
        /\ (ResponseTaskRan /\ ~HeadMatches)
            => /\ fut_comm' = fut_comm
               /\ expected_msg_id' = expected_msg_id
               /\ lock_comm' = lock_comm
               /\ snd_thread' = snd_thread
               /\ \A c \in Calls : /\ call'[c].pc = call[c].pc
                                   /\ call'[c].outcome = call[c].outcome
                                   /\ call'[c].remaining = call[c].remaining
      ]_vars

\* C3 witness: a call returned its result after a message without an id and
\* a message with another id were ignored while it awaited its response.
C3_Witness ==
    \E c \in Calls :
        /\ {"missing_id", "incorrect_id"} \subseteq call[c].ignored
        /\ call[c].outcome.kind = "result"

\* C4: a call awaits with its own timeout, or with the constructor's when it
\* gave none; when it resumes with its future not completed, the timer has
\* run out and it raises CommTimeoutError; it raises CommTimeoutError in no
\* other case; and when it leaves, the expected id and the future are None.
C4_TimeoutRaises ==
    [][ \A c \in Calls :
          /\ (call[c].pc = "sent" /\ call'[c].pc = "await")
                => call'[c].remaining =
                       (IF call[c].timeout = None THEN timeout_comm ELSE call[c].timeout)
          /\ (call[c].pc = "await" /\ call'[c].pc = "await")
                => call'[c].remaining \in {call[c].remaining, call[c].remaining - 1}
          /\ (call[c].pc = "await" /\ call'[c].pc = "done")
                => /\ (fut_comm.state # "done")
                        <=> (call'[c].outcome.kind = "CommTimeoutError")
                   /\ (fut_comm.state # "done") => call[c].remaining = 0
                   /\ expected_msg_id' = None
                   /\ fut_comm' = NoFuture
      ]_vars

\* C4 witness: a call raised CommTimeoutError, the expected id and the future
\* are cleared, and the response to its request is still in the pipe.
C4_Witness ==
    \E c \in Calls :
        /\ call[c].outcome.kind = "CommTimeoutError"
        /\ expected_msg_id = None
        /\ fut_comm = NoFuture
        /\ \E i \in DOMAIN conn_s2c : json_loads(conn_s2c[i]).id = call[c].id

\* The response the server gives to the request of call c.
OwnResponse(c) ==
    request_output(format_jsonrpc_msg(call[c].method, call[c].params, FALSE, call[c].id))

\* C5: a call that read a response read the server's response to its own
\* request; the response to the request of a call that timed out is the
\* response read by no other call.
C5_OwnResponseOnly ==
    /\ \A c \in Calls : ReadResponse(c) => call[c].outcome.response = OwnResponse(c)
    /\ \A a, b \in Calls :
          (a # b /\ call[a].outcome.kind = "CommTimeoutError" /\ ReadResponse(b))
              => call[b].outcome.response # OwnResponse(a)

\* C5 witness: a call timed out, the response to its request arrived while
\* the next call awaited its own and was ignored, and the next call returned
\* its result.
C5_Witness ==
    \E a, b \in Calls :
        /\ call[a].outcome.kind = "CommTimeoutError"
        /\ call[a].id < call[b].id
        /\ "incorrect_id" \in call[b].ignored
        /\ call[b].outcome.kind = "result"

\* C6: the gate is free whenever a call leaves send_msg, whatever the way it
\* leaves; and with time passing and the event loop running, every call that
\* was issued leaves send_msg, a caller waiting at the gate included.
C6_GateReleased ==
    /\ [][ \A c \in Calls : (call[c].pc # "done" /\ call'[c].pc = "done")
                                => ~lock_comm'.locked ]_vars
    /\ \A c \in Calls : (call[c].pc = "lock_wait") ~> (call[c].pc \in {"sent", "await", "done"})
    /\ \A c \in Calls : (call[c].pc # "idle") ~> (call[c].pc = "done")

\* C6 witness: a caller that waited at the gate was admitted after the call
\* before it left with RuntimeError (a response of unknown format).
C6_Witness ==
    \E a, b \in Calls :
        /\ call[a].outcome.kind = "RuntimeError"
        /\ call[b].waited
        /\ call[b].pc \in {"sent", "await"}

\* C7: the request of a notification has no id; the call never awaits, never
\* times out, and while it is in send_msg the expected id and the future are
\* None and the event loop runs no other step; it leaves with None.
C7_NotificationNoWait ==
    /\ [](\A c \in Calls : call[c].notification =>
            /\ call[c].pc \in {"lock_wait", "sent", "done"}
            /\ call[c].id = None
            /\ call[c].outcome.kind \in {"none", "None"}
            /\ call[c].pc = "sent" =>
                  /\ loop_running = c
                  /\ expected_msg_id = None
                  /\ fut_comm = NoFuture)
    /\ [][ \A c \in Calls :
            /\ (call'[c].notification /\ call[c].pc # "sent" /\ call'[c].pc = "sent")
                => /\ Len(conn_c2s') = Len(conn_c2s) + 1
                   /\ "id" \notin DOMAIN json_loads(conn_c2s'[Len(conn_c2s')])
                   /\ json_loads(conn_c2s'[Len(conn_c2s')]).method = call'[c].method
            /\ (call[c].notification /\ call[c].pc = "sent" /\ call'[c].pc # "sent")
                => /\ call'[c].pc = "done"
                   /\ call'[c].outcome.kind = "None"
                   /\ expected_msg_id' = None
                   /\ fut_comm' = NoFuture ]_vars

\* C7 witness: a notification returned None although the server was never
\* started, so that its request is still in the pipe.
C7_Witness ==
    \E c \in Calls :
        /\ call[c].notification
        /\ call[c].pc = "done"
        /\ call[c].outcome.kind = "None"
        /\ \A t \in Threads : rcv_thread[t].pc = "unborn"
        /\ conn_c2s # <<>>

\* C8: a call of the method whose handler returns its params, if it did not
\* time out, returned exactly the params it sent.
C8_EchoResult ==
    \A c \in Calls :
        (call[c].pc = "done" /\ ~call[c].notification /\ call[c].method = "echo")
            => \/ call[c].outcome.kind = "CommTimeoutError"
               \/ /\ call[c].outcome.kind = "result"
                  /\ call[c].outcome.value = call[c].params

\* C8 witness: a call of "echo" with params returned them.
C8_Witness ==
    \E c \in Calls :
        /\ call[c].method = "echo"
        /\ call[c].params # None
        /\ call[c].outcome.kind = "result"
        /\ call[c].outcome.value = call[c].params

\* C9: a call of a method that is not registered, if it did not time out,
\* read an error response with the id of its request and the code of "method
\* not found", and raised CommJsonRpcError with that code and the generic
\* error type.
C9_MethodNotFound ==
    \A c \in Calls :
        (call[c].pc = "done" /\ ~call[c].notification /\ call[c].method \notin dispatcher)
            => \/ call[c].outcome.kind = "CommTimeoutError"
               \/ /\ call[c].outcome.kind = "CommJsonRpcError"
                  /\ call[c].outcome.error_code = MethodNotFoundCode
                  /\ call[c].outcome.error_type = "CommJsonRpcError"
                  /\ call[c].outcome.message = "Method not found"
                  /\ call[c].outcome.response.id = call[c].id
                  /\ call[c].outcome.response.error.code = MethodNotFoundCode

\* C9 witness: a call of "missing_method" raised CommJsonRpcError.
C9_Witness ==
    \E c \in Calls :
        /\ call[c].method = "missing_method"
        /\ call[c].outcome.kind = "CommJsonRpcError"
        /\ call[c].outcome.error_code = MethodNotFoundCode

\* The request the server thread t is handling.
Handled(t) == json_loads(rcv_thread[t].msg)

\* C10: when the handler of a request with an id raises, the thread writes
\* an error response with that id, whose data.type is the kind of the failure
\* and data.message its text, and goes on; no thread of the server ends, and
\* after each request the thread polls again.
C10_HandlerFaultAnswered ==
    /\ [](\A t \in Threads : rcv_thread[t].pc # "dead")
    /\ [][ \A t \in Threads :
            /\ (/\ rcv_thread[t].pc = "handle"
                /\ rcv_thread'[t].pc # "handle"
                /\ "id" \in DOMAIN Handled(t)
                /\ Handled(t).method \in dispatcher
                /\ handler_raises(Handled(t).method))
                => /\ Len(conn_s2c') = Len(conn_s2c) + 1
                   /\ LET r == json_loads(conn_s2c'[Len(conn_s2c')])
                      IN  /\ r.id = Handled(t).id
                          /\ "error" \in DOMAIN r /\ "result" \notin DOMAIN r
                          /\ r.error.data.type = ExcType
                          /\ r.error.data.message = ExcText
                   /\ rcv_thread'[t].pc = "check"
            /\ (rcv_thread[t].pc = "check" /\ rcv_thread'[t].pc # "check")
                => rcv_thread'[t].pc = "poll" ]_vars

\* C10 witness: a call whose handler raised read the error response, and the
\* call after it was answered with its result.
C10_Witness ==
    \E a, b \in Calls :
        /\ call[a].method = "fail"
        /\ call[a].outcome.kind = "CommJsonRpcError"
        /\ call[a].outcome.error_type = ExcType
        /\ call[a].outcome.message = "Server error: " \o ExcText
        /\ call[a].id < call[b].id
        /\ call[b].outcome.kind = "result"

\* The packet is a well-formed request (with or without an id).
IsRequest(text) ==
    json_valid(text) /\ {"method", "jsonrpc"} \subseteq DOMAIN json_loads(text)

\* C11: a thread of the server that has processed a request with an id has
\* written exactly one response, which carries that id and either a result
\* or an error; one that has processed a request without an id has written
\* nothing, whatever its method; nothing else writes to the channel, and no
\* two responses on the channel carry the same id.
C11_OneResponsePerId ==
    /\ [](\A i, j \in DOMAIN conn_s2c :
            (i # j /\ json_loads(conn_s2c[i]).id # None)
                => json_loads(conn_s2c[i]).id # json_loads(conn_s2c[j]).id)
    /\ [][ /\ \A t \in Threads :
                (/\ rcv_thread[t].pc = "handle"
                 /\ rcv_thread'[t].pc # "handle"
                 /\ IsRequest(rcv_thread[t].msg))
                    => IF "id" \in DOMAIN Handled(t)
                       THEN /\ Len(conn_s2c') = Len(conn_s2c) + 1
                            /\ SubSeq(conn_s2c', 1, Len(conn_s2c)) = conn_s2c
                            /\ LET r == json_loads(conn_s2c'[Len(conn_s2c')])
                               IN  /\ r.id = Handled(t).id
                                   /\ ("result" \in DOMAIN r) # ("error" \in DOMAIN r)
                       ELSE conn_s2c' = conn_s2c
           /\ conn_s2c' # conn_s2c
                => \E t \in Threads :
                      rcv_thread[t].pc = "handle" /\ rcv_thread'[t].pc # "handle" ]_vars

\* C11 witness: one thread has processed the two packets that were written, a
\* request with an id and a notification, and the channel holds one response,
\* an error with the id of the request.
C11_Witness ==
    /\ stray_count = 2
    /\ conn_c2s = <<>>
    /\ \E t \in Threads :
          /\ rcv_thread[t].pc = "check"
          /\ \A u \in Threads \ {t} : rcv_thread[u].pc = "unborn"
    /\ Len(conn_s2c) = 1
    /\ json_loads(conn_s2c[1]).id # None
    /\ "error" \in DOMAIN json_loads(conn_s2c[1])

\* A polling loop of the server, of the client, is running.
RcvLoopRunning == \E t \in Threads : rcv_thread[t].pc \in {"poll", "handle", "check"}
SndLoopRunning == \E t \in Threads : snd_thread[t] \in {"poll", "check"}

\* C12: start() returns with the flag set, and returns at once when it finds
\* the flag set.  So a polling loop is running after every start() exactly
\* when, in every state where start() finds the flag set, a polling loop of
\* the instance is running (when the flag is clear, start() launches one).
C12_StartEnsuresLoop ==
    /\ rcv_thread_running => RcvLoopRunning
    /\ snd_thread_running => SndLoopRunning

\* C13: a step that clears the flag of the server changes nothing else; a
\* thread that is handling a request finishes it, and writes the response of
\* a request with an id, also when the flag is clear; while the flag stays
\* clear a thread only reads a packet or exits from its poll, goes from the
\* handler to the flag check, and exits at the flag check; and, with threads
\* that keep running, a thread that finds the flag clear exits unless start()
\* sets the flag again.
C13_StopOnlySetsFlag ==
    /\ [][ (rcv_thread_running /\ ~rcv_thread_running')
              => (rcv_thread' = rcv_thread /\ conn_c2s' = conn_c2s /\ conn_s2c' = conn_s2c) ]_vars
    /\ [][ \A t \in Threads :
              (rcv_thread[t].pc = "handle" /\ rcv_thread'[t] # rcv_thread[t])
                 => /\ rcv_thread'[t].pc = "check"
                    /\ (IsRequest(rcv_thread[t].msg) /\ "id" \in DOMAIN Handled(t))
                          => /\ Len(conn_s2c') = Len(conn_s2c) + 1
                             /\ json_loads(conn_s2c'[Len(conn_s2c')]).id = Handled(t).id ]_vars
    /\ [][ \A t \in Threads :
              (~rcv_thread_running /\ ~rcv_thread_running' /\ rcv_thread'[t] # rcv_thread[t])
                 => \/ rcv_thread[t].pc = "poll" /\ rcv_thread'[t].pc \in {"handle", "dead"}
                    \/ rcv_thread[t].pc = "handle" /\ rcv_thread'[t].pc = "check"
                    \/ rcv_thread[t].pc = "check" /\ rcv_thread'[t].pc = "dead" ]_vars
    /\ \A t \in Threads :
          (~rcv_thread_running /\ rcv_thread[t].pc \in {"poll", "handle", "check"})
              ~> (rcv_thread_running \/ rcv_thread[t].pc = "dead")

\* C13 witness: stop() was called while a thread is handling a request with
\* an id.
C13_Witness ==
    /\ ~rcv_thread_running
    /\ \E t \in Threads :
          /\ rcv_thread[t].pc = "handle"
          /\ IsRequest(rcv_thread[t].msg)
          /\ "id" \in DOMAIN Handled(t)

\* The thread t of the server reads a packet recv raises on.
ReadError(t) ==
    /\ rcv_thread[t].pc = "poll"
    /\ rcv_thread'[t] # rcv_thread[t]
    /\ conn_c2s # <<>>
    /\ recv_raises(Head(conn_c2s))

\* The thread t of the server has handled a text that is not JSON.
DecodeError(t) ==
    /\ rcv_thread[t].pc = "handle"
    /\ rcv_thread'[t] # rcv_thread[t]
    /\ ~json_valid(rcv_thread[t].msg)

\* C14 as stated: a thread of the server that meets a read error or a decode
\* error exits without writing anything, and a thread that has exited stays
\* so.
C14_ReadOrDecodeErrorEndsLoop ==
    [][ \A t \in Threads :
          /\ (ReadError(t) \/ DecodeError(t))
                => (rcv_thread'[t].pc = "dead" /\ conn_s2c' = conn_s2c)
          /\ rcv_thread[t].pc = "dead" => rcv_thread'[t].pc = "dead" ]_vars

\* C14 amended: a thread of the server that meets a read error exits without
\* writing anything and stays so; while no loop of the server is running
\* nothing is read from the channel or written to it, and start() launches
\* none as long as the flag is set.  A text that is not JSON is not such an
\* error: the thread answers it with the "parse error" response, whose id is
\* null, and goes on to the flag check.
C14_ReadErrorEndsLoop ==
    [][ /\ \A t \in Threads :
              /\ ReadError(t)
                    => (rcv_thread'[t].pc = "dead" /\ conn_s2c' = conn_s2c)
              /\ rcv_thread[t].pc = "dead" => rcv_thread'[t].pc = "dead"
              /\ DecodeError(t)
                    => /\ rcv_thread'[t].pc = "check"
                       /\ conn_s2c' = Append(conn_s2c,
                              json_dumps(make_response_error(None, JSONRPCParseError)))
        /\ ~RcvLoopRunning
              => /\ conn_s2c' = conn_s2c
                 /\ Len(conn_c2s') >= Len(conn_c2s)
                 /\ rcv_thread_running => ~RcvLoopRunning' ]_vars

\* C14 witness: the loop of the server has answered a text that is not JSON,
\* then ended on a read error with the flag still set, and a packet that
\* arrived later stays in the channel.
C14_Witness ==
    /\ rcv_thread_running
    /\ ~RcvLoopRunning
    /\ \E t \in Threads : rcv_thread[t].pc = "dead"
    /\ conn_c2s # <<>>
    /\ \E i \in DOMAIN conn_s2c :
          conn_s2c[i] = json_dumps(make_response_error(None, JSONRPCParseError))

\* The send_message call c has left send_message in this step.
ZmqEnds(c) == zmq_call[c].pc # "done" /\ zmq_call'[c].pc = "done"

\* C15: a send_message call has ended in one of three ways.  Without a
\* failure it returned the reply of the server to its request.  After a
\* failure in the send or the receive it ended as the policy of its instance
\* says and in no other way: CommTimeoutError with raise_timeout_exceptions,
\* and otherwise the value {"success": False, "msg": <non-empty text>},
\* returned.  Or its task was cancelled.  No other exception leaves it.
C15_FailurePolicy ==
    \A c \in AllZmqCalls :
        zmq_call[c].pc = "done" =>
            LET out == zmq_call[c].outcome
            IN  \/ /\ ~out.failed
                   /\ out.kind = "return"
                   /\ out.value = server_reply(create_msg(zmq_call[c].method,
                                                          zmq_call[c].params))
                \/ /\ out.failed
                   /\ raise_timeout_exceptions[zmq_call[c].inst]
                   /\ out.kind = "CommTimeoutError"
                \/ /\ out.failed
                   /\ ~raise_timeout_exceptions[zmq_call[c].inst]
                   /\ out.kind = "return"
                   /\ out.value.success = FALSE
                   /\ out.value.msg # ""
                \/ /\ ~out.failed
                   /\ out.kind = "CancelledError"
                   /\ c \in ZmqCalls

\* C15 witness: a call on an instance that raises ended with
\* CommTimeoutError, and the call of zmq_single_request, whose instance does
\* not raise, returned the failure value.
C15_Witness ==
    /\ \E c \in ZmqCalls :
          zmq_call[c].pc = "done" /\ zmq_call[c].outcome.kind = "CommTimeoutError"
    /\ zmq_call[SingleCall].pc = "done"
    /\ zmq_call[SingleCall].outcome.failed
    /\ zmq_call[SingleCall].outcome.kind = "return"

\* A call of the instance i has the gate: it is about to send, or awaits
\* the reply.
HoldsGate(c, i) == zmq_call[c].inst = i /\ zmq_call[c].pc \in {"locked", "recv"}

\* C16: in the step in which a send_message call ends after a failure, the
\* socket of its instance is replaced by a new one on which no exchange has
\* started, the new socket is the only open socket of the instance (the old
\* one is closed), and the gate is released in that step and not before; and
\* the socket of an instance changes, until the instance is deleted, only in
\* a step of the call that holds the gate, so the next call starts on that
\* new socket.
C16_SocketRestarted ==
    [][ /\ \A c \in AllZmqCalls :
              (ZmqEnds(c) /\ zmq_call'[c].outcome.failed)
                  => /\ lock_zmq[zmq_call[c].inst].locked
                     /\ ~lock_zmq'[zmq_call[c].inst].locked
                     /\ zmq_socket'[zmq_call[c].inst].id # zmq_socket[zmq_call[c].inst].id
                     /\ zmq_socket'[zmq_call[c].inst].state = "idle"
                     /\ zmq_ctx'[zmq_call[c].inst] = {zmq_socket'[zmq_call[c].inst].id}
        /\ \A i \in Inst :
              (/\ zmq_socket[i].state \in {"idle", "awaiting"}
               /\ zmq_socket'[i].state \in {"idle", "awaiting"}
               /\ zmq_socket'[i] # zmq_socket[i])
                  => \E c \in AllZmqCalls :
                        HoldsGate(c, i) /\ zmq_call'[c] # zmq_call[c] ]_vars

\* C16 witness: a call ended after a failure, and the call after it, on the
\* new socket, returned the reply of the server.
C16_Witness ==
    \E a, b \in ZmqCalls :
        /\ a < b
        /\ zmq_call[a].pc = "done" /\ zmq_call[a].outcome.failed
        /\ zmq_call[b].pc = "done" /\ ~zmq_call[b].outcome.failed
        /\ zmq_call[b].outcome.kind = "return"
        /\ zmq_socket["client"].id > 1

\* C17: at most one call of an instance holds the gate, and a call that
\* holds the gate and is about to send finds a socket on which no earlier
\* send awaits its reply.
C17_StrictAlternation ==
    \A i \in Inst :
        /\ Cardinality({c \in AllZmqCalls : HoldsGate(c, i)}) <= 1
        /\ \A c \in AllZmqCalls :
              (HoldsGate(c, i) /\ zmq_call[c].pc = "locked")
                  => zmq_socket[i].state = "idle"

\* The one exchange of zmq_single_request met a communication error: the
\* except clause of its send_message ran.
SingleCommError == zmq_call[SingleCall].pc = "done" /\ zmq_call[SingleCall].outcome.failed

\* C18: zmq_single_request has returned.  After a communication error msg is
\* None and err_msg is not empty; otherwise err_msg is empty and msg is the
\* message the server returned; and exactly one of "msg is None" and "err_msg
\* is empty" holds.
C18_SingleReportsError ==
    single.pc = "done" =>
        /\ SingleCommError => (single.msg = NoMsg /\ single.msg_err # "")
        /\ (zmq_call[SingleCall].pc = "done" /\ ~SingleCommError)
              => /\ single.msg_err = ""
                 /\ single.msg = server_reply(create_msg(single.method,
                                                         params_or_empty(single.params)))
        /\ (single.msg = NoMsg) # (single.msg_err = "")

\* C19: zmq_single_request does not raise.  When it has returned, either the
\* instance could not be constructed, no send_message was performed and the
\* pair is None and the text of the exception; or exactly one send_message
\* was performed on the one instance, it has ended, and the pair is made of
\* what it returned or raised.  The call of send_message is made once, and
\* the socket of the instance is closed at the end.
C19_SingleNeverRaises ==
    /\ [](single.pc # "raised")
    /\ [](zmq_call[SingleCall].pc # "idle" => single.pc \in {"wait", "done"})
    /\ [](single.pc = "done" =>
            /\ zmq_ctx["single"] = {}
            /\ IF single.address = "invalid"
               THEN /\ zmq_call[SingleCall].pc = "idle"
                    /\ single.msg = NoMsg
                    /\ single.msg_err = ConnectText
               ELSE /\ zmq_call[SingleCall].pc = "done"
                    /\ zmq_call[SingleCall].inst = "single"
                    /\ single.msg = single_result(zmq_call[SingleCall].outcome).msg
                    /\ single.msg_err = single_result(zmq_call[SingleCall].outcome).msg_err)
    /\ [][ /\ zmq_call[SingleCall].pc # "idle" => zmq_call'[SingleCall].pc # "idle"
           /\ single.pc = "done" => single' = single ]_vars

\* C19 witness: zmq_single_request has returned None and the text of the
\* exception of a constructor that could not connect.
C19_Witness ==
    /\ single.pc = "done"
    /\ single.address = "invalid"
    /\ single.msg = NoMsg
    /\ single.msg_err # ""

\* C20: encoding the message built by format_jsonrpc_msg and decoding it
\* again gives an equivalent message, for every method, every params value
\* (absent, list or mapping, empty or nested) and both values of the
\* notification flag: the text is consumed whole, the decoded value is a
\* dictionary with the same method, the protocol tag "2.0", params present
\* exactly when params was not None and then equal to the value given, and
\* an id present exactly for a non-notification and then equal to the
\* generated one; it has no other key.
C20_RoundTrip ==
    codec.pc = "decoded" =>
        LET r == codec.decoded
            d == r.val
        IN  /\ r.rest = <<>>
            /\ d.t = "dict"
            /\ {d.items[i].key : i \in DOMAIN d.items}
                   \subseteq {"method", "jsonrpc", "params", "id"}
            /\ PyHas(d, "method") /\ PyGet(d, "method") = PyStr(codec.method)
            /\ PyHas(d, "jsonrpc") /\ PyGet(d, "jsonrpc") = PyStr("2.0")
            /\ PyHas(d, "params") <=> codec.params # None
            /\ PyHas(d, "params") => PyGet(d, "params") = ParamTable[codec.params]
            /\ PyHas(d, "id") <=> ~codec.notification
            /\ PyHas(d, "id") => PyGet(d, "id") = PyUuid(codec.uuid)

\* a request whose params is an empty list or dictionary came back from the
\* decoder with params and id
C20_Witness ==
    /\ codec.pc = "decoded"
    /\ ~codec.notification
    /\ codec.params # None
    /\ ParamTable[codec.params].items = <<>>
    /\ PyHas(codec.decoded.val, "params")
    /\ PyHas(codec.decoded.val, "id")

\* C21: a call that resumes with its future completed maps the response it
\* holds, which has the id of its request: with "result" it returns that value
\* (also when "error" is there too); else with "error" it raises
\* CommJsonRpcError with the code of the error and, when the error has data,
\* the type of the data and the message "<message>: <data message>",
\* otherwise the type "CommJsonRpcError" and the message of the error; with
\* neither key it raises RuntimeError.  In each case the expected id and the
\* future are cleared when the call leaves.
C21_ResponseMapping ==
    [][\A c \in Calls :
          (call[c].pc = "await" /\ call'[c].pc = "done" /\ fut_comm.state = "done")
              => LET r == fut_comm.result
                     o == call'[c].outcome
                 IN  /\ r.id = call[c].id
                     /\ "result" \in DOMAIN r
                            => o.kind = "result" /\ o.value = r.result
                     /\ ("result" \notin DOMAIN r /\ "error" \in DOMAIN r)
                            => /\ o.kind = "CommJsonRpcError"
                               /\ o.error_code = r.error.code
                               /\ "data" \in DOMAIN r.error
                                    => /\ o.error_type = r.error.data.type
                                       /\ o.message = r.error.message \o ": "
                                                          \o r.error.data.message
                               /\ "data" \notin DOMAIN r.error
                                    => /\ o.error_type = "CommJsonRpcError"
                                       /\ o.message = r.error.message
                     /\ ("result" \notin DOMAIN r /\ "error" \notin DOMAIN r)
                            => o.kind = "RuntimeError"
                     /\ expected_msg_id' = None
                     /\ fut_comm' = NoFuture ]_vars

\* a call returned the result of a response that also had an error, and the
\* expected id and the future are cleared
C21_Witness ==
    /\ \E c \in Calls :
          /\ call[c].pc = "done"
          /\ call[c].outcome.kind = "result"
          /\ "error" \in DOMAIN call[c].outcome.response
    /\ expected_msg_id = None
    /\ fut_comm = NoFuture

\* C22: callers pass the gate in the order in which they arrived at it, and
\* their requests are written to the pipe in that order: on the step where
\* the request of a call is appended to the pipe, no other call that waits at
\* the gate arrived before it.
C22_ArrivalOrder ==
    [][\A c \in Calls :
          (call[c].pc \in {"idle", "lock_wait"} /\ call'[c].pc = "sent")
              => /\ Len(conn_c2s') = Len(conn_c2s) + 1
                 /\ json_loads(conn_c2s'[Len(conn_c2s')]).method = call'[c].method
                 /\ \A d \in Calls \ {c} :
                        call[d].pc = "lock_wait" => call'[c].arrived < call[d].arrived ]_vars

\* a call that waited at the gate has written its request while a call that
\* arrived after it waits
C22_Witness ==
    \E c, d \in Calls :
        /\ call[c].pc \in {"sent", "await"}
        /\ call[c].waited
        /\ call[d].pc = "lock_wait"
        /\ call[d].arrived > call[c].arrived

\* A thread that was started and has not left its loop.
RcvAlive(t) == rcv_thread[t].pc \notin {"unborn", "dead"}
SndAlive(t) == snd_thread[t] \notin {"unborn", "dead"}

\* C23: the server handles requests one at a time and in the order of the
\* channel, whatever start() and stop() calls are made: no two requests are
\* being dispatched at the same time, and the responses on the channel are
\* in the order of the requests they answer (the peer numbers its requests
\* 1, 2, ... in the order in which it writes them).
C23_OneAtATime ==
    /\ \A t, u \in Threads :
          (rcv_thread[t].pc = "handle" /\ rcv_thread[u].pc = "handle") => t = u
    /\ \A i, j \in DOMAIN conn_s2c :
          (/\ i < j
           /\ json_loads(conn_s2c[i]).id # None
           /\ json_loads(conn_s2c[j]).id # None)
              => json_loads(conn_s2c[i]).id < json_loads(conn_s2c[j]).id

\* C24: whatever start() and stop() calls are made on an instance, at most
\* one polling thread of the instance is alive at any time.
C24_OneThreadAlive ==
    /\ \A t, u \in Threads : (RcvAlive(t) /\ RcvAlive(u)) => t = u
    /\ \A t, u \in Threads : (SndAlive(t) /\ SndAlive(u)) => t = u

\* C25: wherever the event loop can run another task or callback, the
\* expected id is set exactly when the future exists, and both are unset
\* when no call holds the gate; so the task of _response_received that is
\* about to accept a message finds a future.
C25_IdIffSlot ==
    loop_running = None =>
        /\ expected_msg_id # None <=> fut_comm.state # "none"
        /\ ~lock_comm.locked => (expected_msg_id = None /\ fut_comm = NoFuture)
        /\ (/\ loop_ready # <<>>
            /\ Head(loop_ready).kind = "response_received"
            /\ ResponseAccepted(Head(loop_ready).msg)) => fut_comm.state # "none"

\* the task of _response_received is about to run with a message whose id is
\* the expected one, and the future is pending
C25_Witness ==
    /\ loop_running = None
    /\ loop_ready # <<>>
    /\ Head(loop_ready).kind = "response_received"
    /\ ResponseAccepted(Head(loop_ready).msg)
    /\ fut_comm.state = "pending"
    /\ lock_comm.locked

\* C26: a response is never discarded for arriving too early.  When the task
\* of _response_received runs with the response to the request of a call
\* that has written its request and has not left send_msg, the expected id
\* is recorded already: the message is not logged as unsolicited or
\* mismatched, and the future of the call holds it.
C26_EarlyResponseAccepted ==
    [][\A c \in Calls :
          (/\ loop_ready # <<>>
           /\ Head(loop_ready).kind = "response_received"
           /\ loop_ready' = Tail(loop_ready)
           /\ call[c].pc \in {"sent", "await"}
           /\ call[c].id # None
           /\ "id" \in DOMAIN Head(loop_ready).msg
           /\ Head(loop_ready).msg.id = call[c].id)
              => /\ call[c].pc = "await"
                 /\ response_log(Head(loop_ready).msg) = {}
                 /\ fut_comm'.state = "done"
                 /\ fut_comm'.result = Head(loop_ready).msg ]_vars

\* the response to a request was handed to the event loop while the call had
\* written the request and had not yet recorded the expected id
C26_Witness ==
    \E c \in Calls :
        /\ call[c].pc = "sent"
        /\ loop_running = c
        /\ expected_msg_id = None
        /\ \E i \in DOMAIN loop_ready :
              /\ "id" \in DOMAIN loop_ready[i].msg
              /\ loop_ready[i].msg.id = call[c].id

\* C27: after stop(), and until start() is called again, the server
\* dispatches at most one further request; once its threads have exited,
\* what is written to the channel stays there and nothing is answered.
C27_AtMostOneAfterStop ==
    /\ [](~rcv_thread_running => late_reads <= 1)
    /\ [][ (~rcv_thread_running /\ ~rcv_thread_running' /\ \A t \in Threads : ~RcvAlive(t))
              => (/\ \A i \in DOMAIN conn_c2s : conn_c2s'[i] = conn_c2s[i]
                  /\ conn_s2c' = conn_s2c) ]_vars

\* The receiver thread t of the client reads a packet that recv or json.loads
\* raises on.
SndReadError(t) ==
    /\ snd_thread[t] = "poll"
    /\ snd_thread'[t] # snd_thread[t]
    /\ conn_s2c # <<>>
    /\ recv_raises(Head(conn_s2c)) \/ ~json_valid(Head(conn_s2c))

\* C28: a receiver thread of the client that meets an exception while it
\* reads or decodes a message exits and leaves the flag as it is; as long as
\* the flag is set after that, start() launches no thread; and from then on,
\* until stop() and start() have launched a new thread, every call that is
\* not a notification and writes its request after the exception ends with
\* CommTimeoutError.
C28_DeadReaderTimesOut ==
    /\ [][ \A t \in Threads :
              SndReadError(t)
                 => (snd_thread'[t] = "dead" /\ snd_thread_running' = snd_thread_running) ]_vars
    /\ [][ (snd_crash_mark # NoCrash /\ snd_thread_running)
              => \A t \in Threads : snd_thread[t] = "unborn" => snd_thread'[t] = "unborn" ]_vars
    /\ [][ \A c \in Calls :
              (/\ snd_crash_mark # NoCrash
               /\ snd_crash_mark' # NoCrash
               /\ call[c].pc = "await"
               /\ call'[c].pc = "done"
               /\ call[c].id > snd_crash_mark)
                 => call'[c].outcome.kind = "CommTimeoutError" ]_vars


=============================================================================
